---- MODULE Spec2Model ----
(***************************************************************************)
(* Command dispatch of the bot template: CommandManager (registration,     *)
(* prefix dispatch, slash dispatch, cooldowns) as a state machine.         *)
(*                                                                         *)
(* JavaScript runs each handler to completion between awaits, so every     *)
(* action below is one synchronous segment of an async method: from its    *)
(* entry (or resumption) up to the next await.  Date.now() is the variable *)
(* now; it advances only between segments.  The transport accepts every    *)
(* reply the dispatcher sends.                                             *)
(***************************************************************************)
EXTENDS Integers, Sequences, FiniteSets, TLC

VARIABLES now, commands, cooldowns, task, lastReady, lastInvoke, usage,
          commandKeys, registered, warned, platform, sync, listed,
          metrics, guilds, events, call,
          boot, pager, cpuUsageHistory, sampler

(* the registry's key order and registration history, the logger's warnings,
   the declarations the platform holds, the declaration sync in flight and
   the last category listing *)
registryVars == <<commandKeys, registered, warned, platform, sync, listed>>

(* the performanceMetric, guild and guildEvent tables and the telemetry calls
   in flight (the commandUsage table is usage) *)
telemetryVars == <<metrics, guilds, events, call>>

(* the process start-up (Bot constructor and start), the paginated embed of
   a message, SystemMonitor's CPU history and the measurements taken *)
componentVars == <<boot, pager, cpuUsageHistory, sampler>>

vars == <<now, commands, cooldowns, task, lastReady, lastInvoke, usage,
          commandKeys, registered, warned, platform, sync, listed,
          metrics, guilds, events, call,
          boot, pager, cpuUsageHistory, sampler>>

None == "none"

(* no instant recorded yet *)
Never == 0 - 1

(* ---- bounds ---- *)
MaxNow == 2000
Tasks == {"t1", "t2"}
TickSteps == {500, 1000}

MsPerSecond == 1000

(* ---- command definitions (types/command Command) ---- *)
pingCommand ==
  [name |-> "Ping", aliases |-> <<"P">>, description |-> "latency",
   adminOnly |-> FALSE, guildOnly |-> TRUE, cooldown |-> 2,
   execute |-> TRUE, slashExecute |-> TRUE]

configCommand ==
  [name |-> "config", aliases |-> <<>>, description |-> "settings",
   adminOnly |-> TRUE, guildOnly |-> FALSE, cooldown |-> 0,
   execute |-> TRUE, slashExecute |-> TRUE]

kickCommand ==
  [name |-> "kick", aliases |-> <<>>, description |-> "remove a member",
   adminOnly |-> TRUE, guildOnly |-> TRUE, cooldown |-> 0,
   execute |-> TRUE, slashExecute |-> TRUE]

slashonlyCommand ==
  [name |-> "slashonly", aliases |-> <<>>, description |-> "slash only",
   adminOnly |-> FALSE, guildOnly |-> FALSE, cooldown |-> 0,
   execute |-> FALSE, slashExecute |-> TRUE]

prefixonlyCommand ==
  [name |-> "prefixonly", aliases |-> <<>>, description |-> "prefix only",
   adminOnly |-> FALSE, guildOnly |-> FALSE, cooldown |-> 0,
   execute |-> TRUE, slashExecute |-> FALSE]

commandList ==
  <<pingCommand, configCommand, kickCommand, slashonlyCommand, prefixonlyCommand>>

(* what Collection.get yields for a missing key *)
Undefined ==
  [name |-> None, aliases |-> <<>>, description |-> "",
   adminOnly |-> FALSE, guildOnly |-> FALSE, cooldown |-> 0,
   execute |-> FALSE, slashExecute |-> FALSE]

Definitions == {commandList[i] : i \in 1..Len(commandList)}

DefNamed(n) == CHOOSE d \in Definitions : d.name = n

(* String.prototype.toLowerCase on the strings that occur *)
LowerOf == [s \in {"Ping", "PING", "P", "Help", "H"} |->
              CASE s = "P" -> "p"
                [] s = "H" -> "h"
                [] s = "Help" -> "help"
                [] OTHER -> "ping"]

toLowerCase(s) == IF s \in DOMAIN LowerOf THEN LowerOf[s] ELSE s

(* first tokens a text trigger may carry, and slash command names *)
TextTokens ==
  {"", "ping", "PING", "p", "config", "kick", "slashonly", "prefixonly", "nope"}
SlashNames == {"ping", "config", "kick", "slashonly", "prefixonly", "nope"}

(* who triggers: the author, whether the trigger carries a guild, and what
   the trigger carries of the author's guild membership (member /
   memberPermissions): absent, a plain member, or an administrator.
   u1 administers a guild and also writes to the bot directly. *)
Actors ==
  {[id |-> "u1", guild |-> TRUE, actor |-> "admin"],
   [id |-> "u1", guild |-> FALSE, actor |-> "absent"],
   [id |-> "u2", guild |-> TRUE, actor |-> "member"]}

(* ---- CommandManager.registerCommand / registerCommands / getCommand ---- *)
EmptyCollection == [k \in {} |-> None]

CollectionSet(coll, k, v) == (k :> v) @@ coll

(* the aliases stored as written *)
RECURSIVE setAliasesAsWritten(_, _, _)
setAliasesAsWritten(coll, command, i) ==
  IF i > Len(command.aliases) THEN coll
  ELSE setAliasesAsWritten(CollectionSet(coll, command.aliases[i], command),
                           command, i + 1)

RECURSIVE setAliases(_, _, _)
setAliases(coll, command, i) ==
  IF i > Len(command.aliases) THEN coll
  ELSE setAliases(CollectionSet(coll, toLowerCase(command.aliases[i]), command),
                  command, i + 1)

(* the definition stored without the test for name and description *)
registerCommandUnvalidated(coll, command) ==
  setAliases(CollectionSet(coll, toLowerCase(command.name), command), command, 1)

registerCommand(coll, command) ==
  IF command.name = "" \/ command.description = "" THEN coll
  ELSE setAliases(CollectionSet(coll, toLowerCase(command.name), command), command, 1)

RECURSIVE registerCommands(_, _)
registerCommands(coll, cmds) ==
  IF cmds = <<>> THEN coll
  ELSE registerCommands(registerCommand(coll, Head(cmds)), Tail(cmds))

getCommand(coll, name) ==
  IF toLowerCase(name) \in DOMAIN coll THEN coll[toLowerCase(name)] ELSE Undefined

(* ---- the registry's definitions, key order and queries ---- *)
MaxRegistrations == 3
MaxWarned == 1

(* Command.slashCommand: a SlashCommandBuilder, or undefined *)
SlashCommandBuilder(n) == [name |-> n, description |-> "declared"]

NoSlashCommand == [name |-> None, description |-> ""]

(* SlashCommandBuilder.toJSON: the declaration object sent to the platform *)
toJSON(builder) ==
  [name |-> builder.name, description |-> builder.description, options |-> <<>>]

helpCommand ==
  [name |-> "Help", aliases |-> <<"H">>, description |-> "list the commands",
   category |-> "utility", slashCommand |-> SlashCommandBuilder("help")]

(* a second definition named help, without aliases and without declaration *)
helpTextCommand ==
  [name |-> "help", aliases |-> <<>>, description |-> "list the commands as text",
   category |-> "utility", slashCommand |-> NoSlashCommand]

(* its alias is the one helpCommand carries *)
infoCommand ==
  [name |-> "info", aliases |-> <<"h">>, description |-> "about the bot",
   category |-> "utility", slashCommand |-> SlashCommandBuilder("info")]

statsCommand ==
  [name |-> "stats", aliases |-> <<>>, description |-> "usage numbers",
   category |-> "admin", slashCommand |-> NoSlashCommand]

undescribedCommand ==
  [name |-> "draft", aliases |-> <<>>, description |-> "",
   category |-> "utility", slashCommand |-> NoSlashCommand]

(* no name, but an alias *)
unnamedCommand ==
  [name |-> "", aliases |-> <<"x">>, description |-> "nameless",
   category |-> "fun", slashCommand |-> NoSlashCommand]

RegistryDefinitions ==
  {helpCommand, helpTextCommand, infoCommand, statsCommand, undescribedCommand,
   unnamedCommand}

RegistryLists ==
  {<<helpCommand, infoCommand>>, <<infoCommand, undescribedCommand>>,
   <<statsCommand, helpTextCommand>>}

Categories == {"utility", "admin", "fun"}

(* guildId given or not: Routes.applicationGuildCommands / applicationCommands *)
Scopes == {"global", "guild"}

(* registerCommand goes on past its validation *)
Accepted(command) == command.name # "" /\ command.description # ""

(* Map.set keeps the place of a key it already holds *)
KeysSet(keys, k) ==
  IF \E i \in 1..Len(keys) : keys[i] = k THEN keys ELSE Append(keys, k)

RECURSIVE aliasKeys(_, _, _)
aliasKeys(keys, command, i) ==
  IF i > Len(command.aliases) THEN keys
  ELSE aliasKeys(KeysSet(keys, toLowerCase(command.aliases[i])), command, i + 1)

registerCommandKeys(keys, command) ==
  IF ~Accepted(command) THEN keys
  ELSE aliasKeys(KeysSet(keys, toLowerCase(command.name)), command, 1)

RECURSIVE registerCommandsKeys(_, _)
registerCommandsKeys(keys, cmds) ==
  IF cmds = <<>> THEN keys
  ELSE registerCommandsKeys(registerCommandKeys(keys, Head(cmds)), Tail(cmds))

RECURSIVE SelectAccepted(_)
SelectAccepted(cmds) ==
  IF cmds = <<>> THEN <<>>
  ELSE IF Accepted(Head(cmds)) THEN <<Head(cmds)>> \o SelectAccepted(Tail(cmds))
  ELSE SelectAccepted(Tail(cmds))

(* Collection.filter(...).map(...): one element per entry, in key order *)
RECURSIVE getCommandsByCategory(_, _, _)
getCommandsByCategory(coll, keys, category) ==
  IF keys = <<>> THEN <<>>
  ELSE IF coll[Head(keys)].category = category
       THEN <<coll[Head(keys)]>> \o getCommandsByCategory(coll, Tail(keys), category)
       ELSE getCommandsByCategory(coll, Tail(keys), category)

(* Set.add keeps the first place of an element *)
SetAdd(seq, x) ==
  IF \E i \in 1..Len(seq) : seq[i] = x THEN seq ELSE Append(seq, x)

(* every entry with a declaration, aliases included, nothing left out *)
RECURSIVE uniqueCommandsPerKey(_, _)
uniqueCommandsPerKey(coll, keys) ==
  IF keys = <<>> THEN <<>>
  ELSE IF coll[Head(keys)].slashCommand # NoSlashCommand
       THEN <<coll[Head(keys)]>> \o uniqueCommandsPerKey(coll, Tail(keys))
       ELSE uniqueCommandsPerKey(coll, Tail(keys))

(* the loop of registerSlashCommands that fills uniqueCommands *)
RECURSIVE uniqueCommandsFrom(_, _, _)
uniqueCommandsFrom(coll, keys, acc) ==
  IF keys = <<>> THEN acc
  ELSE LET key == Head(keys)
           command == coll[key]
       IN uniqueCommandsFrom(coll, Tail(keys),
            IF toLowerCase(command.name) = toLowerCase(key)
               /\ command.slashCommand # NoSlashCommand
            THEN SetAdd(acc, command) ELSE acc)

uniqueCommands(coll, keys) == uniqueCommandsFrom(coll, keys, <<>>)

slashCommands(coll, keys) ==
  LET unique == uniqueCommands(coll, keys)
  IN [i \in 1..Len(unique) |-> toJSON(unique[i].slashCommand)]

(* ---- the gates of handlePrefixCommand / handleSlashCommand ---- *)
(* the guild test turned around *)
GuildOnlyRejectsInGuild(command, guild) == command.guildOnly /\ guild

GuildOnlyRejects(command, guild) == command.guildOnly /\ ~guild

PrefixAdminRejects(command, actor) ==
  command.adminOnly /\ actor # "absent" /\ actor # "admin"

SlashAdminRejects(command, actor) ==
  command.adminOnly /\ (actor = "absent" \/ actor # "admin")

(* the key without the user *)
cooldownKeyOfCommand(user, command) == <<"", command.name>>

cooldownKey(user, command) == <<user, command.name>>

(* the comparison of line 148 turned around *)
CooldownActiveFlipped(cds, key, t) ==
  key \in DOMAIN cds /\ cds[key] # 0 /\ t > cds[key]

CooldownActive(cds, key, t) ==
  key \in DOMAIN cds /\ cds[key] # 0 /\ t < cds[key]

CeilDiv(x, m) == -((-x) \div m)

(* Math.floor in place of Math.ceil *)
timeLeftFloor(cooldownEnd, t) == (cooldownEnd - t) \div MsPerSecond

timeLeft(cooldownEnd, t) == CeilDiv(cooldownEnd - t, MsPerSecond)

(* the cooldown taken as milliseconds *)
cooldownEndNoScale(t, command) == t + command.cooldown

cooldownEndFrom(t, command) == t + command.cooldown * MsPerSecond

(* the cooldown block moved ahead of the guild and permission checks *)
PrefixGateCooldownFirst(command, user, guild, actor, cds, t) ==
  IF command.cooldown # 0 /\ CooldownActive(cds, cooldownKey(user, command), t)
  THEN "cooldown"
  ELSE IF GuildOnlyRejects(command, guild) THEN "guildOnly"
  ELSE IF PrefixAdminRejects(command, actor) THEN "adminOnly"
  ELSE IF command.execute THEN "pass"
  ELSE "unsupported"

(* execute called without the test for its presence *)
PrefixGateNoHandlerTest(command, user, guild, actor, cds, t) ==
  IF GuildOnlyRejects(command, guild) THEN "guildOnly"
  ELSE IF PrefixAdminRejects(command, actor) THEN "adminOnly"
  ELSE IF command.cooldown # 0 /\ CooldownActive(cds, cooldownKey(user, command), t)
       THEN "cooldown"
  ELSE "pass"

PrefixGate(command, user, guild, actor, cds, t) ==
  IF GuildOnlyRejects(command, guild) THEN "guildOnly"
  ELSE IF PrefixAdminRejects(command, actor) THEN "adminOnly"
  ELSE IF command.cooldown # 0 /\ CooldownActive(cds, cooldownKey(user, command), t)
       THEN "cooldown"
  ELSE IF command.execute THEN "pass"
  ELSE "unsupported"

(* the lookup miss no longer answered *)
SlashGateNoLookupCheck(command, guild, actor) ==
  IF command # Undefined /\ ~command.slashExecute THEN "unavailable"
  ELSE IF GuildOnlyRejects(command, guild) THEN "guildOnly"
  ELSE IF SlashAdminRejects(command, actor) THEN "adminOnly"
  ELSE "pass"

SlashGate(command, guild, actor) ==
  IF command = Undefined \/ ~command.slashExecute THEN "unavailable"
  ELSE IF GuildOnlyRejects(command, guild) THEN "guildOnly"
  ELSE IF SlashAdminRejects(command, actor) THEN "adminOnly"
  ELSE "pass"

(* the cooldown set again on every check, rejected or not *)
CooldownsAfterAlwaysSet(cds, command, user, gate, t) ==
  IF command.cooldown # 0 /\ gate \in {"pass", "unsupported", "cooldown"}
  THEN CollectionSet(cds, cooldownKey(user, command), cooldownEndFrom(t, command))
  ELSE cds

(* the cooldown set only where a text handler is about to run *)
CooldownsAfterHandlerOnly(cds, command, user, gate, t) ==
  IF command.cooldown # 0 /\ gate = "pass"
  THEN CollectionSet(cds, cooldownKey(user, command), cooldownEndFrom(t, command))
  ELSE cds

(* the cooldown store after the cooldown block of handlePrefixCommand *)
CooldownsAfter(cds, command, user, gate, t) ==
  IF command.cooldown # 0 /\ gate \in {"pass", "unsupported"}
  THEN CollectionSet(cds, cooldownKey(user, command), cooldownEndFrom(t, command))
  ELSE cds

(* ---- dispatch tasks ---- *)
IdleTask ==
  [pc |-> "idle", kind |-> None, user |-> None, cmd |-> None,
   guild |-> FALSE, actor |-> "absent", gate |-> None, replies |-> <<>>,
   invoked |-> FALSE, fault |-> FALSE, acked |-> FALSE, logged |-> 0,
   at |-> 0, left |-> 0, prevReady |-> Never, prevInvoke |-> Never,
   escaped |-> FALSE, caught |-> FALSE, commandName |-> None]

(* message.reply: visible to the channel *)
Reply(msg, via) == [msg |-> msg, via |-> via, ephemeral |-> FALSE]

(* interaction.reply / interaction.followUp with ephemeral: true *)
EphemeralReply(msg, via) == [msg |-> msg, via |-> via, ephemeral |-> TRUE]

HistoryOf(h, key) == IF key \in DOMAIN h THEN h[key] ELSE Never

(* ---- telemetry: Performance.recordMetric / measure, Analytics writes ---- *)
Callers == {"m1", "m2"}
MaxRows == 2
MaxElapsed == 500
ElapseStep == 500

(* what measure is asked to wrap: metricType and name *)
MeasuredOps ==
  {[metricType |-> "command_execution", name |-> "ping"],
   [metricType |-> "database_query", name |-> "findUser"]}

(* what the wrapped function resolves with, and what it rejects with *)
FnValues == {"v1"}
FnErrors == {"e1", "e2"}

(* discord ids of guilds telemetry is recorded for *)
GuildIds == {"g1"}

(* no row of a table has this id *)
NoId == 0

NoData == [metricType |-> None, name |-> None, duration |-> 0, success |-> FALSE]

(* no telemetry call in flight for this caller *)
IdleCall ==
  [op |-> None, pc |-> "idle", metricType |-> None, name |-> None,
   start |-> 0, finished |-> 0, success |-> FALSE, error |-> None,
   result |-> None, data |-> NoData, attempts |-> 0, dbFailed |-> FALSE,
   logged |-> 0, raised |-> None, value |-> None, returned |-> 0,
   guildId |-> None, guildDbId |-> NoId, days |-> 0, limit |-> 0,
   answer |-> <<>>]

(* measure: start = Date.now(); success = true; the wrapped function is called *)
MeasureStart(op, t) ==
  [IdleCall EXCEPT !.op = "measure", !.pc = "fn",
                   !.metricType = op.metricType, !.name = op.name,
                   !.start = t, !.success = TRUE]

(* the record is written before the wrapped function is called *)
MeasureFinallyAtStart(cl, t, err, v) ==
  [cl EXCEPT !.pc = "create", !.finished = t, !.success = (err = None),
             !.error = err, !.result = v, !.attempts = @ + 1,
             !.data = [metricType |-> cl.metricType, name |-> cl.name,
                       duration |-> 0, success |-> TRUE]]

(* measure: the wrapped function settled at t; catch sets success = false; the
   finally block takes the duration and calls recordMetric *)
MeasureFinally(cl, t, err, v) ==
  [cl EXCEPT !.pc = "create", !.finished = t, !.success = (err = None),
             !.error = err, !.result = v, !.attempts = @ + 1,
             !.data = [metricType |-> cl.metricType, name |-> cl.name,
                       duration |-> t - cl.start, success |-> (err = None)]]

(* a failed write lets the call return as if the function had resolved *)
MeasureSettleSwallows(cl, t) ==
  IF cl.success \/ cl.dbFailed
  THEN [cl EXCEPT !.pc = "returned", !.value = cl.result, !.returned = t - cl.start]
  ELSE [cl EXCEPT !.pc = "threw", !.raised = cl.error]

(* measure: recordMetric has returned at t; the pending throw goes on, or the
   result is returned with a duration taken now *)
MeasureSettle(cl, t) ==
  IF cl.success
  THEN [cl EXCEPT !.pc = "returned", !.value = cl.result, !.returned = t - cl.start]
  ELSE [cl EXCEPT !.pc = "threw", !.raised = cl.error]

(* no try/catch around the create: the rejection leaves recordMetric *)
RecordMetricRethrow(cl) ==
  [cl EXCEPT !.dbFailed = TRUE, !.pc = "threw", !.raised = "PrismaError"]

(* the catch block of recordMetric *)
RecordMetricCatch(cl) == [cl EXCEPT !.dbFailed = TRUE, !.logged = @ + 1]

(* recordMetric returns to its caller: measure goes on, a direct call is over *)
RecordMetricReturn(cl, t) ==
  IF cl.pc = "threw" THEN cl
  ELSE IF cl.op = "measure" THEN MeasureSettle(cl, t)
  ELSE [cl EXCEPT !.pc = "returned"]

(* a row of a table: the data, the key and the creation time the store adds *)
Row(table, data, t) == [id |-> Cardinality(table) + 1, data |-> data, createdAt |-> t]

(* prisma.guild.findUnique({ where: { discordId } }): the row's id, or none *)
FindGuild(table, discordId) ==
  IF \E g \in table : g.data.discordId = discordId
  THEN (CHOOSE g \in table : g.data.discordId = discordId).id
  ELSE NoId

(* the catch blocks of recordCommandUsage and recordGuildEvent *)
AnalyticsWriteCatch(cl) ==
  [cl EXCEPT !.dbFailed = TRUE, !.logged = @ + 1, !.pc = "returned"]

(* ---- analytics reads: Analytics.get*, Performance.get* ---- *)
DayMs == 86400000

(* Date.now() when the reads run *)
AnalyticsNow == 10 * DayMs

(* a duration column holding null *)
NoDuration == 0 - 1

(* no createdAt condition in the where clause *)
NoWindow == 0 - 1

(* the guild table the reads run against *)
StoredGuilds ==
  {[id |-> 1, data |-> [discordId |-> "g1", name |-> "one"], createdAt |-> DayMs],
   [id |-> 2, data |-> [discordId |-> "g2", name |-> "two"], createdAt |-> DayMs]}

UsageRow(id, guild, command, success, duration, createdAt) ==
  [id |-> id,
   data |-> [guildId |-> guild, userId |-> "u1", command |-> command,
             type |-> "prefix", success |-> success, duration |-> duration],
   createdAt |-> createdAt]

(* commandUsage rows the table may hold: a duration of 0, a failed one, one
   without duration, one of another guild, one older than a week *)
UsagePool ==
  {UsageRow(1, 1, "a", TRUE, 0, 9 * DayMs),
   UsageRow(2, 1, "a", FALSE, 10, 9 * DayMs),
   UsageRow(3, 2, "b", TRUE, NoDuration, 9 * DayMs),
   UsageRow(4, 1, "b", TRUE, 20, DayMs),
   UsageRow(5, 2, "c", TRUE, 30, 9 * DayMs)}

MetricRow(id, metricType, name, duration, success, createdAt) ==
  [id |-> id,
   data |-> [metricType |-> metricType, name |-> name, duration |-> duration,
             success |-> success],
   createdAt |-> createdAt]

MetricPool ==
  {MetricRow(1, "command_execution", "ping", 0, TRUE, 9 * DayMs),
   MetricRow(2, "command_execution", "ping", 25, FALSE, 9 * DayMs),
   MetricRow(3, "command_execution", "ping", 30, TRUE, DayMs),
   MetricRow(4, "database_query", "findUser", 50, TRUE, 9 * DayMs)}

QueryGuildIds == {None, "g1", "g9"}
QueryDays == {7}
QueryLimits == {1, 2}

(* since = new Date(); since.setDate(since.getDate() - days) *)
Since(t, days) == t - days * DayMs

(* the rows of a findMany without orderBy, in the order they were stored *)
RECURSIVE ById(_)
ById(rows) ==
  IF rows = {} THEN <<>>
  ELSE LET first == CHOOSE r \in rows : \A q \in rows : r.id <= q.id
       IN <<first>> \o ById(rows \ {first})

(* prisma.commandUsage where { guildId?, createdAt?: { gte } } *)
UsagesWhere(table, guildDbId, since) ==
  {r \in table : /\ guildDbId # NoId => r.data.guildId = guildDbId
                 /\ since # NoWindow => r.createdAt >= since}

RECURSIVE SumOf(_)
SumOf(durations) ==
  IF durations = <<>> THEN 0 ELSE Head(durations) + SumOf(Tail(durations))

(* a / b as JavaScript computes it, kept as the fraction *)
Quotient(a, b) == [num |-> a, den |-> b]

Zero == [num |-> 0, den |-> 1]

(* stat.durations of the aggregation loop: if (usage.duration) push *)
RECURSIVE DurationsOf(_, _)
DurationsOf(usages, command) ==
  IF usages = <<>> THEN <<>>
  ELSE (IF Head(usages).data.command = command
           /\ Head(usages).data.duration # NoDuration
           /\ Head(usages).data.duration # 0
        THEN <<Head(usages).data.duration>> ELSE <<>>)
       \o DurationsOf(Tail(usages), command)

(* the keys of the stats Map, in insertion order *)
RECURSIVE CommandsOf(_, _)
CommandsOf(usages, seen) ==
  IF usages = <<>> THEN seen
  ELSE CommandsOf(Tail(usages), SetAdd(seen, Head(usages).data.command))

(* getCommandStats: the aggregation and the final map over the entries *)
AggregateStats(usages) ==
  LET cmds == CommandsOf(usages, <<>>)
      Of(command) == {i \in 1..Len(usages) : usages[i].data.command = command}
      Stat(command) ==
        LET count == Cardinality(Of(command))
            successes == Cardinality({i \in Of(command) : usages[i].data.success})
            durations == DurationsOf(usages, command)
        IN [command |-> command, count |-> count,
            successRate |-> IF count > 0 THEN Quotient(successes, count) ELSE Zero,
            avgDuration |-> IF Len(durations) > 0
                            THEN Quotient(SumOf(durations), Len(durations)) ELSE Zero]
  IN [i \in 1..Len(cmds) |-> Stat(cmds[i])]

(* groupBy command with _count *)
GroupCounts(rows) ==
  {[command |-> c, count |-> Cardinality({r \in rows : r.data.command = c})] :
     c \in {r.data.command : r \in rows}}

(* every order of S in which key never increases: orderBy desc decides
   nothing between equal keys *)
DescOrders(S, key) ==
  {s \in [1..Cardinality(S) -> S] :
     /\ \A i, j \in 1..Cardinality(S) : i # j => s[i] # s[j]
     /\ \A i, j \in 1..Cardinality(S) : i < j => key[s[i]] >= key[s[j]]}

(* take: limit *)
Take(s, limit) == SubSeq(s, 1, IF Len(s) < limit THEN Len(s) ELSE limit)

(* prisma.performanceMetric where of getAveragePerformance *)
MetricsWhere(table, metricType, name, since) ==
  {r \in table : /\ r.data.metricType = metricType
                 /\ r.data.name = name
                 /\ r.createdAt >= since
                 /\ r.data.success}

(* the where clause without success: true *)
AveragePerformanceAllOutcomes(table, metricType, name, since) ==
  LET found == ById({r \in table : /\ r.data.metricType = metricType
                                   /\ r.data.name = name
                                   /\ r.createdAt >= since})
  IN IF Len(found) = 0
     THEN [isNull |-> TRUE, avgDuration |-> Zero, count |-> 0]
     ELSE [isNull |-> FALSE,
           avgDuration |-> Quotient(SumOf([i \in 1..Len(found) |-> found[i].data.duration]),
                                    Len(found)),
           count |-> Len(found)]

(* getAveragePerformance once findMany has resolved: null, or the average *)
AveragePerformance(table, metricType, name, since) ==
  LET found == ById(MetricsWhere(table, metricType, name, since))
  IN IF Len(found) = 0
     THEN [isNull |-> TRUE, avgDuration |-> Zero, count |-> 0]
     ELSE [isNull |-> FALSE,
           avgDuration |-> Quotient(SumOf([i \in 1..Len(found) |-> found[i].data.duration]),
                                    Len(found)),
           count |-> Len(found)]

ReadOps ==
  {"getCommandStats", "getTotalCommandCount", "getMostUsedCommands",
   "getAveragePerformance", "getSlowestMetrics"}

(* the catch blocks letting the failure through *)
ReadFallbackRethrow(cl) ==
  [cl EXCEPT !.dbFailed = TRUE, !.pc = "threw", !.raised = "PrismaError"]

(* the catch blocks of the reads: log, and return [] / 0 / null *)
ReadFallback(cl) ==
  [cl EXCEPT !.dbFailed = TRUE, !.logged = @ + 1, !.pc = "returned",
             !.answer = IF cl.op = "getTotalCommandCount" THEN 0
                        ELSE IF cl.op = "getAveragePerformance"
                             THEN [isNull |-> TRUE, avgDuration |-> Zero, count |-> 0]
                        ELSE <<>>]

(* ---- start-up, pagination and system monitor at rest ---- *)
(* no Bot constructed *)
NoBot == [pc |-> "none", log |-> <<>>]

(* a Bot whose start has resolved *)
BootReady ==
  [pc |-> "ready",
   log |-> <<"registerCommands", "registerAllEvents", "setupErrorHandlers",
             "connect", "login">>]

(* nothing rendered *)
NoRender ==
  [page |-> 0, buttons |-> FALSE, first |-> FALSE, prev |-> FALSE,
   next |-> FALSE, last |-> FALSE]

(* createPaginatedEmbed not called *)
IdlePager ==
  [pc |-> "idle", items |-> 0, itemsPerPage |-> 0, totalPages |-> 0,
   currentPage |-> 0, rendered |-> NoRender, collector |-> FALSE, presses |-> 0]

(* no measurement taken *)
IdleSampler == [profile |-> None, taken |-> 0]

(* no declaration sync in flight *)
IdleSync == [pc |-> "idle", scope |-> None, body |-> <<>>]

(* registerSlashCommands up to its first await: nothing to declare returns at
   once, anything else goes to rest.put *)
SyncStart(scope, body) ==
  [pc |-> IF Len(body) = 0 THEN "done" ELSE "put", scope |-> scope, body |-> body]

(* PUT on a commands route: what the route holds afterwards *)
Put(body) == {body[i] : i \in 1..Len(body)}

(* no listing asked for yet *)
NoListing == [category |-> None, result |-> <<>>]

Init ==
  /\ now = 0
  /\ commands = registerCommands(EmptyCollection, commandList)
  /\ cooldowns = EmptyCollection
  /\ task = [t \in Tasks |-> IdleTask]
  /\ lastReady = EmptyCollection
  /\ lastInvoke = EmptyCollection
  /\ usage = {}
  /\ commandKeys = registerCommandsKeys(<<>>, commandList)
  /\ registered = SelectAccepted(commandList)
  /\ warned = 0
  /\ platform = [s \in Scopes |-> {}]
  /\ sync = IdleSync
  /\ listed = NoListing
  /\ metrics = {}
  /\ guilds = {}
  /\ events = {}
  /\ call = [c \in Callers |-> IdleCall]
  /\ boot = BootReady
  /\ pager = IdlePager
  /\ cpuUsageHistory = <<>>
  /\ sampler = IdleSampler

(* wall-clock time passes between synchronous segments *)
Tick(dt) ==
  /\ now + dt <= MaxNow
  /\ now' = now + dt
  /\ UNCHANGED <<commands, cooldowns, task, lastReady, lastInvoke, usage, registryVars, telemetryVars, componentVars>>

(* handlePrefixCommand, entry to its first await (or return) *)
PrefixStart(command, user, ctx, cds, t) ==
  LET gate == PrefixGate(command, user, ctx.guild, ctx.actor, cds, t)
      key == cooldownKey(user, command)
  IN [IdleTask EXCEPT
        !.kind = "text", !.user = user, !.cmd = command.name,
        !.guild = ctx.guild, !.actor = ctx.actor,
        !.at = IF command.cooldown # 0 THEN t ELSE 0,
        !.gate = gate,
        !.pc = IF gate = "pass" THEN "handler" ELSE "reply",
        !.replies = IF gate = "pass" THEN <<>> ELSE <<Reply(gate, "reply")>>,
        !.invoked = (gate = "pass"),
        !.left = IF gate = "cooldown" THEN timeLeft(cds[key], t) ELSE 0,
        !.prevReady = IF command.cooldown # 0 THEN HistoryOf(lastReady, key) ELSE Never,
        !.prevInvoke = IF command.cooldown # 0 THEN HistoryOf(lastInvoke, key) ELSE Never]

(* a reply sent before the early return *)
PrefixReturnWithReply(user, ctx, why) ==
  [IdleTask EXCEPT !.pc = "reply", !.kind = "text", !.user = user,
                   !.guild = ctx.guild, !.actor = ctx.actor, !.gate = why,
                   !.replies = <<Reply(why, "reply")>>]

(* the early returns of handlePrefixCommand: no command name, or no command *)
PrefixReturn(user, ctx, why) ==
  [IdleTask EXCEPT !.pc = "done", !.kind = "text", !.user = user,
                   !.guild = ctx.guild, !.actor = ctx.actor, !.gate = why]

handlePrefixCommand(t, user, token, ctx) ==
  LET command == getCommand(commands, toLowerCase(token))
  IN /\ task[t].pc = "idle"
     /\ IF toLowerCase(token) = "" \/ command = Undefined
        THEN /\ task' = [task EXCEPT ![t] =
                  PrefixReturn(user, ctx, IF toLowerCase(token) = "" THEN "empty"
                                          ELSE "unresolved")]
             /\ UNCHANGED <<cooldowns, lastReady, lastInvoke>>
        ELSE LET nt == PrefixStart(command, user, ctx, cooldowns, now)
                 key == cooldownKey(user, command)
                 armed == command.cooldown # 0 /\ nt.gate \in {"pass", "unsupported"}
             IN /\ task' = [task EXCEPT ![t] = [nt EXCEPT !.commandName = toLowerCase(token)]]
                /\ cooldowns' = CooldownsAfter(cooldowns, command, user, nt.gate, now)
                /\ lastReady' = IF armed THEN CollectionSet(lastReady, key, now)
                                ELSE lastReady
                /\ lastInvoke' = IF armed /\ nt.invoked
                                 THEN CollectionSet(lastInvoke, key, now)
                                 ELSE lastInvoke
     /\ UNCHANGED <<now, commands, usage, registryVars, telemetryVars, componentVars>>

(* handleSlashCommand, entry to its first await *)
SlashStart(command, user, ctx) ==
  LET gate == SlashGate(command, ctx.guild, ctx.actor)
  IN [IdleTask EXCEPT
        !.kind = "slash", !.user = user,
        !.cmd = command.name,
        !.guild = ctx.guild, !.actor = ctx.actor,
        !.gate = gate,
        !.pc = IF gate = "pass" THEN "handler" ELSE "reply",
        !.replies = IF gate = "pass" THEN <<>> ELSE <<EphemeralReply(gate, "reply")>>,
        !.invoked = (gate = "pass")]

(* the cooldown block of the text path run on the slash path as well *)
handleSlashCommandWithCooldown(t, user, name, ctx) ==
  LET command == getCommand(commands, toLowerCase(name))
      st == SlashStart(command, user, ctx)
      key == cooldownKey(user, command)
      active == st.gate = "pass" /\ command.cooldown # 0
                  /\ CooldownActive(cooldowns, key, now)
  IN /\ task[t].pc = "idle"
     /\ task' = [task EXCEPT ![t] =
          IF active
          THEN [st EXCEPT !.gate = "cooldown", !.pc = "reply", !.invoked = FALSE,
                          !.replies = <<EphemeralReply("cooldown", "reply")>>]
          ELSE st]
     /\ cooldowns' = IF active THEN cooldowns
                     ELSE CooldownsAfter(cooldowns, command, user, st.gate, now)
     /\ UNCHANGED <<now, commands, lastReady, lastInvoke, usage, registryVars, telemetryVars, componentVars>>

handleSlashCommand(t, user, name, ctx) ==
  LET command == getCommand(commands, toLowerCase(name))
  IN /\ task[t].pc = "idle"
     /\ task' = [task EXCEPT ![t] = SlashStart(command, user, ctx)]
     /\ UNCHANGED <<now, commands, cooldowns, lastReady, lastInvoke, usage, registryVars, telemetryVars, componentVars>>

(* the awaited handler body resolves; nothing follows the try block *)
HandlerReturn(t) ==
  /\ task[t].pc = "handler"
  /\ task' = [task EXCEPT ![t].pc = "done"]
  /\ UNCHANGED <<now, commands, cooldowns, lastReady, lastInvoke, usage, registryVars, telemetryVars, componentVars>>

(* no try/catch around execute: the rejection leaves the method *)
PrefixCatchRethrow(tk) == [tk EXCEPT !.fault = TRUE, !.pc = "threw"]

(* the catch block of handlePrefixCommand *)
PrefixCatch(tk) ==
  [tk EXCEPT !.fault = TRUE, !.logged = @ + 1,
             !.replies = Append(@, Reply("error", "reply")), !.pc = "reply"]

(* the catch block replying both ways *)
SlashCatchTwice(tk, acked) ==
  [tk EXCEPT !.fault = TRUE, !.logged = @ + 1, !.acked = acked,
             !.replies = Append(Append(@, EphemeralReply("error", "followUp")),
                                EphemeralReply("error", "reply")),
             !.pc = "reply"]

(* the catch block without the replied / deferred test *)
SlashCatchAlwaysReply(tk, acked) ==
  [tk EXCEPT !.fault = TRUE, !.logged = @ + 1, !.acked = acked,
             !.replies = Append(@, EphemeralReply("error", "reply")),
             !.pc = "reply"]

(* the catch block of handleSlashCommand; acked is interaction.replied ||
   interaction.deferred as the handler body left it *)
SlashCatch(tk, acked) ==
  [tk EXCEPT !.fault = TRUE, !.logged = @ + 1, !.acked = acked,
             !.replies = Append(@, EphemeralReply("error",
                                  IF acked THEN "followUp" ELSE "reply")),
             !.pc = "reply"]

(* the awaited text handler body throws or rejects *)
ExecuteThrows(t) ==
  /\ task[t].pc = "handler"
  /\ task[t].kind = "text"
  /\ task' = [task EXCEPT ![t] = PrefixCatch(task[t])]
  /\ UNCHANGED <<now, commands, cooldowns, lastReady, lastInvoke, usage, registryVars, telemetryVars, componentVars>>

(* the awaited slash handler body throws or rejects, before or after it
   acknowledged the interaction *)
SlashExecuteThrows(t, acked) ==
  /\ task[t].pc = "handler"
  /\ task[t].kind = "slash"
  /\ task' = [task EXCEPT ![t] = SlashCatch(task[t], acked)]
  /\ UNCHANGED <<now, commands, cooldowns, lastReady, lastInvoke, usage, registryVars, telemetryVars, componentVars>>

(* an awaited dispatcher reply resolves and the method returns; the listener's
   promise settles and the trigger is dropped *)
ReplySent(t) ==
  /\ task[t].pc = "reply"
  /\ task' = [task EXCEPT ![t] = IdleTask]
  /\ UNCHANGED <<now, commands, cooldowns, lastReady, lastInvoke, usage, registryVars, telemetryVars, componentVars>>

(* a settled dispatch is dropped *)
Release(t) ==
  /\ task[t].pc = "done"
  /\ task' = [task EXCEPT ![t] = IdleTask]
  /\ UNCHANGED <<now, commands, cooldowns, lastReady, lastInvoke, usage, registryVars, telemetryVars, componentVars>>

Next ==
  \/ \E dt \in TickSteps : Tick(dt)
  \/ \E t \in Tasks, a \in Actors, tok \in TextTokens :
       handlePrefixCommand(t, a.id, tok, a)
  \/ \E t \in Tasks, a \in Actors, n \in SlashNames :
       handleSlashCommand(t, a.id, n, a)
  \/ \E t \in Tasks : HandlerReturn(t)
  \/ \E t \in Tasks : ExecuteThrows(t)
  \/ \E t \in Tasks, acked \in BOOLEAN : SlashExecuteThrows(t, acked)
  \/ \E t \in Tasks : ReplySent(t)
  \/ \E t \in Tasks : Release(t)

Spec == Init /\ [][Next]_vars

(* ---- the registry on its own: registration, listing, declaration sync ---- *)
dispatchVars == <<now, cooldowns, task, lastReady, lastInvoke, usage>>

RegistryInit ==
  /\ now = 0
  /\ commands = EmptyCollection
  /\ cooldowns = EmptyCollection
  /\ task = [t \in Tasks |-> IdleTask]
  /\ lastReady = EmptyCollection
  /\ lastInvoke = EmptyCollection
  /\ usage = {}
  /\ commandKeys = <<>>
  /\ registered = <<>>
  /\ warned = 0
  /\ platform = [s \in Scopes |-> {}]
  /\ sync = IdleSync
  /\ listed = NoListing
  /\ metrics = {}
  /\ guilds = {}
  /\ events = {}
  /\ call = [c \in Callers |-> IdleCall]
  /\ boot = NoBot
  /\ pager = IdlePager
  /\ cpuUsageHistory = <<>>
  /\ sampler = IdleSampler

(* registerCommands, and registerCommand as the list of one *)
RegisterCommands(cmds) ==
  LET accepted == SelectAccepted(cmds)
      skipped == Len(cmds) - Len(accepted)
  IN /\ Len(registered) + Len(accepted) <= MaxRegistrations
     /\ warned + skipped <= MaxWarned
     /\ commands' = registerCommands(commands, cmds)
     /\ commandKeys' = registerCommandsKeys(commandKeys, cmds)
     /\ registered' = registered \o accepted
     /\ warned' = warned + skipped
     /\ UNCHANGED <<dispatchVars, telemetryVars, componentVars, platform, sync, listed>>

RegisterCommand(command) == RegisterCommands(<<command>>)

GetCommandsByCategory(category) ==
  /\ listed' = [category |-> category,
                result |-> getCommandsByCategory(commands, commandKeys, category)]
  /\ UNCHANGED <<dispatchVars, telemetryVars, componentVars, commands, commandKeys, registered, warned, platform, sync>>

(* registerSlashCommands, entry to the await of rest.put (or the early return) *)
registerSlashCommands(scope) ==
  LET body == slashCommands(commands, commandKeys)
  IN /\ sync.pc = "idle"
     /\ sync' = SyncStart(scope, body)
     /\ UNCHANGED <<dispatchVars, telemetryVars, componentVars, commands, commandKeys, registered, warned, platform, listed>>

(* rest.put resolves: the platform holds the body for that route *)
PutResolves ==
  /\ sync.pc = "put"
  /\ platform' = [platform EXCEPT ![sync.scope] = Put(sync.body)]
  /\ sync' = [sync EXCEPT !.pc = "done"]
  /\ UNCHANGED <<dispatchVars, telemetryVars, componentVars, commands, commandKeys, registered, warned, listed>>

(* rest.put rejects: logged and thrown on to the caller *)
PutRejects ==
  /\ sync.pc = "put"
  /\ sync' = [sync EXCEPT !.pc = "threw"]
  /\ UNCHANGED <<dispatchVars, telemetryVars, componentVars, commands, commandKeys, registered, warned, platform, listed>>

(* the caller has seen the sync settle *)
SyncSettled ==
  /\ sync.pc \in {"done", "threw"}
  /\ sync' = IdleSync
  /\ UNCHANGED <<dispatchVars, telemetryVars, componentVars, commands, commandKeys, registered, warned, platform, listed>>

RegistryNext ==
  \/ \E command \in RegistryDefinitions : RegisterCommand(command)
  \/ \E cmds \in RegistryLists : RegisterCommands(cmds)
  \/ \E category \in Categories : GetCommandsByCategory(category)
  \/ \E scope \in Scopes : registerSlashCommands(scope)
  \/ PutResolves
  \/ PutRejects
  \/ SyncSettled

RegistrySpec == RegistryInit /\ [][RegistryNext]_vars

(* ---- telemetry on its own: measure, recordMetric, the Analytics writes ---- *)
idleVars == <<commands, cooldowns, task, lastReady, lastInvoke, registryVars, componentVars>>

TelemetryInit ==
  /\ now = 0
  /\ commands = EmptyCollection
  /\ cooldowns = EmptyCollection
  /\ task = [t \in Tasks |-> IdleTask]
  /\ lastReady = EmptyCollection
  /\ lastInvoke = EmptyCollection
  /\ usage = {}
  /\ commandKeys = <<>>
  /\ registered = <<>>
  /\ warned = 0
  /\ platform = [s \in Scopes |-> {}]
  /\ sync = IdleSync
  /\ listed = NoListing
  /\ metrics = {}
  /\ guilds = {}
  /\ events = {}
  /\ call = [c \in Callers |-> IdleCall]
  /\ boot = NoBot
  /\ pager = IdlePager
  /\ cpuUsageHistory = <<>>
  /\ sampler = IdleSampler

(* time passes while telemetry calls are suspended *)
Elapse ==
  /\ now + ElapseStep <= MaxElapsed
  /\ now' = now + ElapseStep
  /\ UNCHANGED <<idleVars, usage, metrics, guilds, events, call>>

(* rows written, and calls that will still try to write one *)
Written == Cardinality(metrics) + Cardinality(usage) + Cardinality(events)

Pending == Cardinality({c \in Callers : call[c].pc \notin {"idle", "returned", "threw"}})

(* Performance.measure, entry to the await of fn() *)
measure(c, op) ==
  /\ call[c].pc = "idle"
  /\ Written + Pending < MaxRows
  /\ call' = [call EXCEPT ![c] = MeasureStart(op, now)]
  /\ UNCHANGED <<now, idleVars, usage, metrics, guilds, events>>

(* fn() resolves: the finally block runs up to the await inside recordMetric *)
FnResolves(c, v) ==
  /\ call[c].op = "measure" /\ call[c].pc = "fn"
  /\ call' = [call EXCEPT ![c] = MeasureFinally(call[c], now, None, v)]
  /\ UNCHANGED <<now, idleVars, usage, metrics, guilds, events>>

(* fn() rejects: catch, then the finally block as above *)
FnRejects(c, e) ==
  /\ call[c].op = "measure" /\ call[c].pc = "fn"
  /\ call' = [call EXCEPT ![c] = MeasureFinally(call[c], now, e, None)]
  /\ UNCHANGED <<now, idleVars, usage, metrics, guilds, events>>

(* Performance.recordMetric called directly, entry to the await of create *)
recordMetric(c, op, duration) ==
  /\ call[c].pc = "idle"
  /\ Written + Pending < MaxRows
  /\ call' = [call EXCEPT ![c] =
       [IdleCall EXCEPT !.op = "recordMetric", !.pc = "create", !.attempts = 1,
                        !.metricType = op.metricType, !.name = op.name,
                        !.data = [metricType |-> op.metricType, name |-> op.name,
                                  duration |-> duration, success |-> TRUE]]]
  /\ UNCHANGED <<now, idleVars, usage, metrics, guilds, events>>

(* prisma.performanceMetric.create resolves; recordMetric returns *)
CreateMetricResolves(c) ==
  /\ call[c].pc = "create"
  /\ metrics' = metrics \cup {Row(metrics, call[c].data, now)}
  /\ call' = [call EXCEPT ![c] = RecordMetricReturn(call[c], now)]
  /\ UNCHANGED <<now, idleVars, usage, guilds, events>>

(* prisma.performanceMetric.create rejects; recordMetric catches and returns *)
CreateMetricRejects(c) ==
  /\ call[c].pc = "create"
  /\ call' = [call EXCEPT ![c] = RecordMetricReturn(RecordMetricCatch(call[c]), now)]
  /\ UNCHANGED <<now, idleVars, usage, metrics, guilds, events>>

(* Analytics.recordCommandUsage, entry to its first await *)
recordCommandUsage(c, guildId) ==
  /\ call[c].pc = "idle"
  /\ Written + Pending < MaxRows
  /\ call' = [call EXCEPT ![c] =
       [IdleCall EXCEPT !.op = "recordCommandUsage", !.guildId = guildId,
                        !.pc = IF guildId # None THEN "findGuild" ELSE "createUsage"]]
  /\ UNCHANGED <<now, idleVars, usage, metrics, guilds, events>>

(* Analytics.recordGuildEvent, entry to its first await *)
recordGuildEvent(c, guildId) ==
  /\ call[c].pc = "idle"
  /\ Written + Pending < MaxRows
  /\ call' = [call EXCEPT ![c] =
       [IdleCall EXCEPT !.op = "recordGuildEvent", !.guildId = guildId,
                        !.pc = "findGuild"]]
  /\ UNCHANGED <<now, idleVars, usage, metrics, guilds, events>>

(* prisma.guild.findUnique resolves *)
FindGuildResolves(c) ==
  LET found == FindGuild(guilds, call[c].guildId)
  IN /\ call[c].pc = "findGuild"
     /\ call' = [call EXCEPT ![c] =
          [call[c] EXCEPT !.guildDbId = found,
             !.pc = IF call[c].op = "recordCommandUsage" THEN "createUsage"
                    ELSE IF found = NoId THEN "createGuild" ELSE "createEvent"]]
     /\ UNCHANGED <<now, idleVars, usage, metrics, guilds, events>>

(* prisma.guild.create resolves (discordId is unique) *)
CreateGuildResolves(c) ==
  /\ call[c].pc = "createGuild"
  /\ FindGuild(guilds, call[c].guildId) = NoId
  /\ guilds' = guilds \cup {Row(guilds, [discordId |-> call[c].guildId, name |-> "Unknown"], now)}
  /\ call' = [call EXCEPT ![c] =
       [call[c] EXCEPT !.guildDbId = Cardinality(guilds) + 1, !.pc = "createEvent"]]
  /\ UNCHANGED <<now, idleVars, usage, metrics, events>>

(* prisma.guild.create for a discordId another call has stored since the
   lookup: the unique index rejects it, and the catch block takes over *)
CreateGuildConflicts(c) ==
  /\ call[c].pc = "createGuild"
  /\ FindGuild(guilds, call[c].guildId) # NoId
  /\ call' = [call EXCEPT ![c] =
       [AnalyticsWriteCatch(call[c]) EXCEPT !.error = "UniqueConstraint"]]
  /\ UNCHANGED <<now, idleVars, usage, metrics, guilds, events>>

(* prisma.commandUsage.create resolves; recordCommandUsage returns *)
CreateUsageResolves(c) ==
  /\ call[c].pc = "createUsage"
  /\ usage' = usage \cup
       {Row(usage, [guildId |-> call[c].guildDbId, userId |-> "u1", command |-> "ping",
                    type |-> "prefix", success |-> TRUE, duration |-> 0], now)}
  /\ call' = [call EXCEPT ![c].pc = "returned"]
  /\ UNCHANGED <<now, idleVars, metrics, guilds, events>>

(* prisma.guildEvent.create resolves; recordGuildEvent returns *)
CreateEventResolves(c) ==
  /\ call[c].pc = "createEvent"
  /\ events' = events \cup
       {Row(events, [guildId |-> call[c].guildDbId, eventType |-> "join"], now)}
  /\ call' = [call EXCEPT ![c].pc = "returned"]
  /\ UNCHANGED <<now, idleVars, usage, metrics, guilds>>

(* any awaited prisma call of recordCommandUsage / recordGuildEvent rejects *)
AnalyticsWriteRejects(c) ==
  /\ call[c].pc \in {"findGuild", "createGuild", "createUsage", "createEvent"}
  /\ call' = [call EXCEPT ![c] =
       [AnalyticsWriteCatch(call[c]) EXCEPT !.error = "Unavailable"]]
  /\ UNCHANGED <<now, idleVars, usage, metrics, guilds, events>>

(* the caller has the result or the exception *)
CallSettled(c) ==
  /\ call[c].pc \in {"returned", "threw"}
  /\ call' = [call EXCEPT ![c] = IdleCall]
  /\ UNCHANGED <<now, idleVars, usage, metrics, guilds, events>>

TelemetryNext ==
  \/ Elapse
  \/ \E c \in Callers, op \in MeasuredOps : measure(c, op)
  \/ \E c \in Callers, v \in FnValues : FnResolves(c, v)
  \/ \E c \in Callers, e \in FnErrors : FnRejects(c, e)
  \/ \E c \in Callers, op \in MeasuredOps : recordMetric(c, op, 0)
  \/ \E c \in Callers : CreateMetricResolves(c)
  \/ \E c \in Callers : CreateMetricRejects(c)
  \/ \E c \in Callers, g \in GuildIds \cup {None} : recordCommandUsage(c, g)
  \/ \E c \in Callers, g \in GuildIds : recordGuildEvent(c, g)
  \/ \E c \in Callers : FindGuildResolves(c)
  \/ \E c \in Callers : CreateGuildResolves(c)
  \/ \E c \in Callers : CreateGuildConflicts(c)
  \/ \E c \in Callers : CreateUsageResolves(c)
  \/ \E c \in Callers : CreateEventResolves(c)
  \/ \E c \in Callers : AnalyticsWriteRejects(c)
  \/ \E c \in Callers : CallSettled(c)

TelemetrySpec == TelemetryInit /\ [][TelemetryNext]_vars

(* ---- analytics reads on their own, over every table drawn from the pools ---- *)
Readers == {"m1"}

AnalyticsInit ==
  /\ now = AnalyticsNow
  /\ commands = EmptyCollection
  /\ cooldowns = EmptyCollection
  /\ task = [t \in Tasks |-> IdleTask]
  /\ lastReady = EmptyCollection
  /\ lastInvoke = EmptyCollection
  /\ usage \in SUBSET UsagePool
  /\ commandKeys = <<>>
  /\ registered = <<>>
  /\ warned = 0
  /\ platform = [s \in Scopes |-> {}]
  /\ sync = IdleSync
  /\ listed = NoListing
  /\ metrics \in SUBSET MetricPool
  /\ guilds = StoredGuilds
  /\ events = {}
  /\ call = [c \in Callers |-> IdleCall]
  /\ boot = NoBot
  /\ pager = IdlePager
  /\ cpuUsageHistory = <<>>
  /\ sampler = IdleSampler

(* a read with an optional guild filter, entry to its first await *)
ReadStart(op, guildId, days, limit) ==
  [IdleCall EXCEPT !.op = op, !.guildId = guildId, !.days = days, !.limit = limit,
                   !.pc = IF guildId # None THEN "findGuild" ELSE "query"]

getCommandStats(c, guildId, days) ==
  /\ call[c].pc = "idle"
  /\ call' = [call EXCEPT ![c] = ReadStart("getCommandStats", guildId, days, 0)]
  /\ UNCHANGED <<now, idleVars, usage, metrics, guilds, events>>

getTotalCommandCount(c, guildId, days) ==
  /\ call[c].pc = "idle"
  /\ call' = [call EXCEPT ![c] = ReadStart("getTotalCommandCount", guildId, days, 0)]
  /\ UNCHANGED <<now, idleVars, usage, metrics, guilds, events>>

getMostUsedCommands(c, limit, guildId) ==
  /\ call[c].pc = "idle"
  /\ call' = [call EXCEPT ![c] = ReadStart("getMostUsedCommands", guildId, 0, limit)]
  /\ UNCHANGED <<now, idleVars, usage, metrics, guilds, events>>

getAveragePerformance(c, op, days) ==
  /\ call[c].pc = "idle"
  /\ call' = [call EXCEPT ![c] =
       [ReadStart("getAveragePerformance", None, days, 0)
          EXCEPT !.metricType = op.metricType, !.name = op.name]]
  /\ UNCHANGED <<now, idleVars, usage, metrics, guilds, events>>

getSlowestMetrics(c, metricType, limit) ==
  /\ call[c].pc = "idle"
  /\ call' = [call EXCEPT ![c] =
       [ReadStart("getSlowestMetrics", None, 0, limit) EXCEPT !.metricType = metricType]]
  /\ UNCHANGED <<now, idleVars, usage, metrics, guilds, events>>

(* prisma.guild.findUnique resolves: where.guildId is set if a guild came back *)
ReadGuildResolves(c) ==
  /\ call[c].op \in ReadOps
  /\ call[c].pc = "findGuild"
  /\ call' = [call EXCEPT ![c] =
       [call[c] EXCEPT !.guildDbId = FindGuild(guilds, call[c].guildId), !.pc = "query"]]
  /\ UNCHANGED <<now, idleVars, usage, metrics, guilds, events>>

(* the where clause of the commandUsage reads *)
UsagesOf(cl) ==
  UsagesWhere(usage, cl.guildDbId,
              IF cl.days # 0 THEN Since(now, cl.days) ELSE NoWindow)

(* the select of getSlowestMetrics *)
Selected(r) ==
  [metricType |-> r.data.metricType, name |-> r.data.name,
   duration |-> r.data.duration, createdAt |-> r.createdAt]

(* findMany / count / groupBy resolves and the read returns its answer *)
QueryResolves(c) ==
  LET cl == call[c]
      groups == GroupCounts(UsagesOf(cl))
      slow == {r \in metrics : cl.metricType # None => r.data.metricType = cl.metricType}
  IN /\ cl.op \in ReadOps
     /\ cl.pc = "query"
     /\ \E answer \in
          CASE cl.op = "getCommandStats" -> {AggregateStats(ById(UsagesOf(cl)))}
            [] cl.op = "getTotalCommandCount" -> {Cardinality(UsagesOf(cl))}
            [] cl.op = "getMostUsedCommands" ->
                 {Take(s, cl.limit) : s \in DescOrders(groups, [g \in groups |-> g.count])}
            [] cl.op = "getAveragePerformance" ->
                 {AveragePerformance(metrics, cl.metricType, cl.name, Since(now, cl.days))}
            [] OTHER ->
                 {Take([i \in 1..Len(s) |-> Selected(s[i])], cl.limit) :
                    s \in DescOrders(slow, [r \in slow |-> r.data.duration])} :
          call' = [call EXCEPT ![c] = [cl EXCEPT !.pc = "returned", !.answer = answer]]
     /\ UNCHANGED <<now, idleVars, usage, metrics, guilds, events>>

(* an awaited prisma call of a read rejects *)
ReadRejects(c) ==
  /\ call[c].op \in ReadOps
  /\ call[c].pc \in {"findGuild", "query"}
  /\ call' = [call EXCEPT ![c] = ReadFallback(call[c])]
  /\ UNCHANGED <<now, idleVars, usage, metrics, guilds, events>>

AnalyticsNext ==
  \/ \E c \in Readers, g \in QueryGuildIds, d \in QueryDays : getCommandStats(c, g, d)
  \/ \E c \in Readers, g \in QueryGuildIds, d \in QueryDays \cup {0} :
       getTotalCommandCount(c, g, d)
  \/ \E c \in Readers, l \in QueryLimits, g \in QueryGuildIds : getMostUsedCommands(c, l, g)
  \/ \E c \in Readers, op \in MeasuredOps, d \in QueryDays : getAveragePerformance(c, op, d)
  \/ \E c \in Readers, m \in {None, "command_execution"}, l \in QueryLimits :
       getSlowestMetrics(c, m, l)
  \/ \E c \in Readers : ReadGuildResolves(c)
  \/ \E c \in Readers : QueryResolves(c)
  \/ \E c \in Readers : ReadRejects(c)
  \/ \E c \in Readers : CallSettled(c)

AnalyticsSpec == AnalyticsInit /\ [][AnalyticsNext]_vars

(* ---- the event listeners around the dispatch, with a reply transport that
   may reject ---- *)
(* the rejection of an awaited reply, where it goes: the reply of the try
   block is caught by the catch block of handlePrefixCommand, every other one
   leaves the method and, through the await of handleMessageCreate /
   handleInteractionCreate, the listener's promise *)
ReplyRejected(tk) ==
  IF tk.kind = "text" /\ tk.gate = "unsupported" /\ ~tk.fault
  THEN PrefixCatch(tk)
  ELSE [tk EXCEPT !.pc = "threw", !.escaped = TRUE]

(* the promise of the handler left without a catch *)
ListenerCatchMissing(tk) == [tk EXCEPT !.pc = "unhandled"]

(* .catch((error) => { logger.error(...) }) of the listeners *)
ListenerCatch(tk) == [tk EXCEPT !.pc = "done", !.caught = TRUE]

(* message.reply / interaction.reply / interaction.followUp rejects *)
ReplyRejects(t) ==
  /\ task[t].pc = "reply"
  /\ task' = [task EXCEPT ![t] = ReplyRejected(task[t])]
  /\ UNCHANGED <<now, commands, cooldowns, lastReady, lastInvoke, usage, registryVars, telemetryVars, componentVars>>

(* the rejected promise of handleMessageCreate / handleInteractionCreate
   reaches the listener's catch callback *)
HandlerRejected(t) ==
  /\ task[t].pc = "threw"
  /\ task' = [task EXCEPT ![t] = ListenerCatch(task[t])]
  /\ UNCHANGED <<now, commands, cooldowns, lastReady, lastInvoke, usage, registryVars, telemetryVars, componentVars>>

ListenerNext ==
  \/ \E t \in Tasks, a \in Actors, tok \in TextTokens :
       handlePrefixCommand(t, a.id, tok, a)
  \/ \E t \in Tasks, a \in Actors, n \in SlashNames :
       handleSlashCommand(t, a.id, n, a)
  \/ \E t \in Tasks : HandlerReturn(t)
  \/ \E t \in Tasks : ExecuteThrows(t)
  \/ \E t \in Tasks, acked \in BOOLEAN : SlashExecuteThrows(t, acked)
  \/ \E t \in Tasks : ReplySent(t)
  \/ \E t \in Tasks : ReplyRejects(t)
  \/ \E t \in Tasks : HandlerRejected(t)
  \/ \E t \in Tasks : Release(t)

ListenerSpec == Init /\ [][ListenerNext]_vars

(* ---- the cooldown store on its own: two commands with a cooldown, one of
   them without text handler, two users ---- *)
remindCommand ==
  [name |-> "remind", aliases |-> <<>>, description |-> "reminder",
   adminOnly |-> FALSE, guildOnly |-> FALSE, cooldown |-> 1,
   execute |-> FALSE, slashExecute |-> TRUE]

cooldownList == <<pingCommand, remindCommand>>

CooldownTokens == {"ping", "P", "remind"}

CooldownActors ==
  {[id |-> "u1", guild |-> TRUE, actor |-> "admin"],
   [id |-> "u2", guild |-> TRUE, actor |-> "member"],
   [id |-> "u2", guild |-> FALSE, actor |-> "absent"]}

(* one dispatch at a time *)
CooldownTasks == {"t1"}

CooldownInit ==
  /\ now = 0
  /\ commands = registerCommands(EmptyCollection, cooldownList)
  /\ cooldowns = EmptyCollection
  /\ task = [t \in Tasks |-> IdleTask]
  /\ lastReady = EmptyCollection
  /\ lastInvoke = EmptyCollection
  /\ usage = {}
  /\ commandKeys = registerCommandsKeys(<<>>, cooldownList)
  /\ registered = SelectAccepted(cooldownList)
  /\ warned = 0
  /\ platform = [s \in Scopes |-> {}]
  /\ sync = IdleSync
  /\ listed = NoListing
  /\ metrics = {}
  /\ guilds = {}
  /\ events = {}
  /\ call = [c \in Callers |-> IdleCall]
  /\ boot = BootReady
  /\ pager = IdlePager
  /\ cpuUsageHistory = <<>>
  /\ sampler = IdleSampler

CooldownNext ==
  \/ \E dt \in TickSteps : Tick(dt)
  \/ \E t \in CooldownTasks, a \in CooldownActors, tok \in CooldownTokens :
       handlePrefixCommand(t, a.id, tok, a)
  \/ \E t \in CooldownTasks : HandlerReturn(t)
  \/ \E t \in CooldownTasks : ExecuteThrows(t)
  \/ \E t \in CooldownTasks : ReplySent(t)
  \/ \E t \in CooldownTasks : Release(t)

CooldownSpec == CooldownInit /\ [][CooldownNext]_vars

(* ---- start-up: main, the Bot constructor and Bot.start ---- *)
Logged(b, entry) == \E i \in 1..Len(b.log) : b.log[i] = entry

(* the listeners attached ahead of the registrations *)
BotConstructorEventsFirst(b) ==
  [b EXCEPT !.pc = "constructed",
            !.log = <<"registerAllEvents", "registerCommands", "setupErrorHandlers">>]

(* new Bot(): the calls of the constructor in the order it makes them *)
BotConstructor(b) ==
  [b EXCEPT !.pc = "constructed",
            !.log = <<"registerCommands", "registerAllEvents", "setupErrorHandlers">>]

(* gateway events reach the listeners: they are attached and login was called *)
Delivers(b) ==
  Logged(b, "registerAllEvents") /\ Logged(b, "login") /\ b.pc \in {"login", "ready"}

StartupTasks == {"t1"}

StartupInit ==
  /\ now = 0
  /\ commands = EmptyCollection
  /\ cooldowns = EmptyCollection
  /\ task = [t \in Tasks |-> IdleTask]
  /\ lastReady = EmptyCollection
  /\ lastInvoke = EmptyCollection
  /\ usage = {}
  /\ commandKeys = <<>>
  /\ registered = <<>>
  /\ warned = 0
  /\ platform = [s \in Scopes |-> {}]
  /\ sync = IdleSync
  /\ listed = NoListing
  /\ metrics = {}
  /\ guilds = {}
  /\ events = {}
  /\ call = [c \in Callers |-> IdleCall]
  /\ boot = NoBot
  /\ pager = IdlePager
  /\ cpuUsageHistory = <<>>
  /\ sampler = IdleSampler

(* main: new Bot() *)
NewBot ==
  /\ boot.pc = "none"
  /\ boot' = BotConstructor(boot)
  /\ commands' = registerCommands(commands, commandList)
  /\ commandKeys' = registerCommandsKeys(commandKeys, commandList)
  /\ registered' = registered \o SelectAccepted(commandList)
  /\ UNCHANGED <<dispatchVars, telemetryVars, warned, platform, sync, listed,
                 pager, cpuUsageHistory, sampler>>

(* main: bot.start() up to await prisma.$connect() *)
BotStart ==
  /\ boot.pc = "constructed"
  /\ boot' = [boot EXCEPT !.pc = "connect", !.log = Append(@, "connect")]
  /\ UNCHANGED <<dispatchVars, telemetryVars, commands, registryVars,
                 pager, cpuUsageHistory, sampler>>

(* the database connection is up: client.login is called *)
ConnectResolves ==
  /\ boot.pc = "connect"
  /\ boot' = [boot EXCEPT !.pc = "login", !.log = Append(@, "login")]
  /\ UNCHANGED <<dispatchVars, telemetryVars, commands, registryVars,
                 pager, cpuUsageHistory, sampler>>

(* login resolves and start returns *)
LoginResolves ==
  /\ boot.pc = "login"
  /\ boot' = [boot EXCEPT !.pc = "ready"]
  /\ UNCHANGED <<dispatchVars, telemetryVars, commands, registryVars,
                 pager, cpuUsageHistory, sampler>>

(* $connect or login rejects: start rethrows, main logs and exits, and with
   the process every dispatch in flight ends *)
StartRejects ==
  /\ boot.pc \in {"connect", "login"}
  /\ boot' = [boot EXCEPT !.pc = "exited"]
  /\ task' = [t \in Tasks |-> IdleTask]
  /\ UNCHANGED <<now, cooldowns, lastReady, lastInvoke, usage, telemetryVars,
                 commands, registryVars, pager, cpuUsageHistory, sampler>>

StartupNext ==
  \/ NewBot
  \/ BotStart
  \/ ConnectResolves
  \/ LoginResolves
  \/ StartRejects
  \/ \E t \in StartupTasks, a \in Actors, tok \in TextTokens :
       Delivers(boot) /\ handlePrefixCommand(t, a.id, tok, a)
  \/ \E t \in StartupTasks, a \in Actors, n \in SlashNames :
       Delivers(boot) /\ handleSlashCommand(t, a.id, n, a)
  \/ \E t \in StartupTasks : HandlerReturn(t)
  \/ \E t \in StartupTasks : ExecuteThrows(t)
  \/ \E t \in StartupTasks, acked \in BOOLEAN : SlashExecuteThrows(t, acked)
  \/ \E t \in StartupTasks : ReplySent(t)
  \/ \E t \in StartupTasks : Release(t)

StartupSpec == StartupInit /\ [][StartupNext]_vars

(* ---- createPaginatedEmbed: one paginated message and its collector ---- *)
MaxItems == 7

(* itemsPerPage as passed, 10 being the default *)
PageSizes == {1, 2, 3, 10}

Buttons == {"pagination_first", "pagination_prev", "pagination_next", "pagination_last"}

(* getButtons: which of the four buttons are disabled *)
getButtons(currentPage, totalPages) ==
  [page |-> currentPage, buttons |-> TRUE,
   first |-> currentPage = 1, prev |-> currentPage = 1,
   next |-> currentPage = totalPages, last |-> currentPage = totalPages]

(* the reply or update as sent: the embed of the page, and the button row if
   there is one *)
Rendered(currentPage, totalPages, withButtons) ==
  IF withButtons THEN getButtons(currentPage, totalPages)
  ELSE [NoRender EXCEPT !.page = currentPage]

(* the switch of the collect handler *)
Collected(customId, currentPage, totalPages) ==
  CASE customId = "pagination_first" -> 1
    [] customId = "pagination_prev" -> IF currentPage > 1 THEN currentPage - 1 ELSE currentPage
    [] customId = "pagination_next" ->
         IF currentPage < totalPages THEN currentPage + 1 ELSE currentPage
    [] OTHER -> totalPages

PagerInit ==
  /\ now = 0
  /\ commands = EmptyCollection
  /\ cooldowns = EmptyCollection
  /\ task = [t \in Tasks |-> IdleTask]
  /\ lastReady = EmptyCollection
  /\ lastInvoke = EmptyCollection
  /\ usage = {}
  /\ commandKeys = <<>>
  /\ registered = <<>>
  /\ warned = 0
  /\ platform = [s \in Scopes |-> {}]
  /\ sync = IdleSync
  /\ listed = NoListing
  /\ metrics = {}
  /\ guilds = {}
  /\ events = {}
  /\ call = [c \in Callers |-> IdleCall]
  /\ boot = NoBot
  /\ pager = IdlePager
  /\ cpuUsageHistory = <<>>
  /\ sampler = IdleSampler

pagerFrame == <<now, commands, cooldowns, task, lastReady, lastInvoke, usage,
                registryVars, telemetryVars, boot, cpuUsageHistory, sampler>>

(* createPaginatedEmbed, entry to the await of message.reply *)
createPaginatedEmbed(items, itemsPerPage) ==
  LET totalPages == CeilDiv(items, itemsPerPage)
  IN /\ pager.pc = "idle"
     /\ pager' = [IdlePager EXCEPT
          !.pc = "reply", !.items = items, !.itemsPerPage = itemsPerPage,
          !.totalPages = totalPages, !.currentPage = 1,
          !.rendered = Rendered(1, totalPages, totalPages > 1)]
     /\ UNCHANGED pagerFrame

(* message.reply resolves: return if there is a single page or none, else
   create the collector *)
PagerReplyResolves ==
  /\ pager.pc = "reply"
  /\ pager' = IF pager.totalPages <= 1
              THEN [pager EXCEPT !.pc = "returned"]
              ELSE [pager EXCEPT !.pc = "collecting", !.collector = TRUE]
  /\ UNCHANGED pagerFrame

(* message.reply rejects: the rejection leaves createPaginatedEmbed *)
PagerReplyRejects ==
  /\ pager.pc = "reply"
  /\ pager' = [pager EXCEPT !.pc = "threw", !.rendered = NoRender]
  /\ UNCHANGED pagerFrame

(* collect: a button press of the author, up to the await of
   interaction.update *)
Collect(customId) ==
  LET page == Collected(customId, pager.currentPage, pager.totalPages)
  IN /\ pager.pc = "collecting"
     /\ pager' = [pager EXCEPT !.currentPage = page,
                               !.rendered = Rendered(page, pager.totalPages, TRUE)]
     /\ UNCHANGED pagerFrame

(* end: the collector timed out; the row is sent with every button disabled *)
CollectorEnds ==
  /\ pager.pc = "collecting"
  /\ pager' = [pager EXCEPT !.pc = "ended", !.collector = FALSE,
                            !.rendered = [pager.rendered EXCEPT
                               !.first = TRUE, !.prev = TRUE,
                               !.next = TRUE, !.last = TRUE]]
  /\ UNCHANGED pagerFrame

PagerNext ==
  \/ \E items \in 0..MaxItems, itemsPerPage \in PageSizes :
       createPaginatedEmbed(items, itemsPerPage)
  \/ PagerReplyResolves
  \/ PagerReplyRejects
  \/ \E customId \in Buttons : Collect(customId)
  \/ CollectorEnds

PagerSpec == PagerInit /\ [][PagerNext]_vars

(* ---- SystemMonitor: the CPU usage history ---- *)
MAX_HISTORY == 60

MaxRecordings == 125

(* what the host's CPU counters do over the run *)
LoadProfiles == {"idle", "busy", "ramp", "saw"}

(* getCpuUsage at the n-th recording: a whole percentage within 0..100 *)
getCpuUsage(profile, n) ==
  CASE profile = "idle" -> 0
    [] profile = "busy" -> 100
    [] profile = "ramp" -> n % 101
    [] OTHER -> (37 * n) % 101

(* a full history that keeps its oldest measurements and drops the new one *)
pushAndTrimNewest(history, measured) ==
  IF Len(history) + 1 > MAX_HISTORY THEN history ELSE Append(history, measured)

(* push, then shift when the length exceeds MAX_HISTORY *)
pushAndTrim(history, measured) ==
  LET pushed == Append(history, measured)
  IN IF Len(pushed) > MAX_HISTORY THEN Tail(pushed) ELSE pushed

MonitorInit ==
  /\ now = 0
  /\ commands = EmptyCollection
  /\ cooldowns = EmptyCollection
  /\ task = [t \in Tasks |-> IdleTask]
  /\ lastReady = EmptyCollection
  /\ lastInvoke = EmptyCollection
  /\ usage = {}
  /\ commandKeys = <<>>
  /\ registered = <<>>
  /\ warned = 0
  /\ platform = [s \in Scopes |-> {}]
  /\ sync = IdleSync
  /\ listed = NoListing
  /\ metrics = {}
  /\ guilds = {}
  /\ events = {}
  /\ call = [c \in Callers |-> IdleCall]
  /\ boot = NoBot
  /\ pager = IdlePager
  /\ cpuUsageHistory = <<>>
  /\ sampler \in {[IdleSampler EXCEPT !.profile = p] : p \in LoadProfiles}

(* SystemMonitor.recordCpuUsage *)
recordCpuUsage ==
  /\ sampler.taken < MaxRecordings
  /\ cpuUsageHistory' =
       pushAndTrim(cpuUsageHistory, getCpuUsage(sampler.profile, sampler.taken + 1))
  /\ sampler' = [sampler EXCEPT !.taken = @ + 1]
  /\ UNCHANGED <<now, commands, cooldowns, task, lastReady, lastInvoke, usage,
                 registryVars, telemetryVars, boot, pager>>

MonitorNext == recordCpuUsage

MonitorSpec == MonitorInit /\ [][MonitorNext]_vars

(* ---- claims ---- *)
Running(t) == task[t].pc \in {"reply", "handler"}

Resolved(t) == task[t].pc # "idle" /\ task[t].cmd # None

TextOnCooldownCommand(t) ==
  /\ Resolved(t)
  /\ task[t].kind = "text"
  /\ DefNamed(task[t].cmd).cooldown > 0

GateRejections == {"guildOnly", "adminOnly", "cooldown"}

(* C1: two invocations of a cooldown-bearing command's text handler on behalf
   of one user, by name or by alias, are at least cooldown seconds apart. *)
C1_RateLimit ==
  \A t \in Tasks :
    (TextOnCooldownCommand(t) /\ task[t].invoked /\ task[t].prevInvoke # Never)
      => task[t].at - task[t].prevInvoke >= DefNamed(task[t].cmd).cooldown * 1000

C1_Witness ==
  \E t \in Tasks :
    /\ TextOnCooldownCommand(t)
    /\ task[t].invoked
    /\ task[t].prevInvoke # Never
    /\ task[t].at >= 2000

(* C2 as stated: of two text dispatches of one cooldown-bearing command by one
   user that are in flight together, at most one observed ready. *)
C2_AtMostOneReadyInFlight ==
  \A t1, t2 \in Tasks :
    (/\ t1 # t2
     /\ Running(t1) /\ Running(t2)
     /\ TextOnCooldownCommand(t1) /\ TextOnCooldownCommand(t2)
     /\ task[t1].user = task[t2].user /\ task[t1].cmd = task[t2].cmd)
      => ~(task[t1].gate = "pass" /\ task[t2].gate = "pass")

(* C2 amended: of two text dispatches of one cooldown-bearing command by one
   user that are in flight together and whose cooldown checks are less than
   cooldown seconds apart, at most one observed ready and reached the handler;
   the other was rejected with the remaining-time reply. *)
C2_AtMostOneReadyInWindow ==
  \A t1, t2 \in Tasks :
    (/\ t1 # t2
     /\ Running(t1) /\ Running(t2)
     /\ TextOnCooldownCommand(t1) /\ TextOnCooldownCommand(t2)
     /\ task[t1].user = task[t2].user /\ task[t1].cmd = task[t2].cmd
     /\ task[t1].gate \in {"pass", "cooldown"} /\ task[t2].gate \in {"pass", "cooldown"}
     /\ task[t1].at <= task[t2].at
     /\ task[t2].at - task[t1].at < DefNamed(task[t1].cmd).cooldown * 1000)
      => /\ ~(task[t1].gate = "pass" /\ task[t2].gate = "pass")
         /\ task[t1].gate = "pass" =>
              /\ task[t2].gate = "cooldown"
              /\ ~task[t2].invoked
              /\ task[t2].replies = <<Reply("cooldown", "reply")>>

C2_Witness ==
  \E t1, t2 \in Tasks :
    /\ t1 # t2
    /\ TextOnCooldownCommand(t1) /\ TextOnCooldownCommand(t2)
    /\ task[t1].user = task[t2].user /\ task[t1].cmd = task[t2].cmd
    /\ task[t1].pc = "handler" /\ task[t1].gate = "pass"
    /\ task[t2].pc = "reply" /\ task[t2].gate = "cooldown"
    /\ task[t2].at = task[t1].at

(* C3: for one (user, command) with cooldown d, a check with no earlier ready
   check is ready; a check less than d seconds after the last ready check is
   rejected with a remaining time r, 0 < r <= d; a check d seconds or more
   after it is ready again; and a ready check arms a window of d seconds. *)
C3_CheckAndArm ==
  /\ \A t \in Tasks :
       (TextOnCooldownCommand(t) /\ task[t].gate \in {"pass", "unsupported", "cooldown"})
         => LET d == DefNamed(task[t].cmd).cooldown
                elapsed == \/ task[t].prevReady = Never
                           \/ task[t].at - task[t].prevReady >= d * 1000
            IN /\ elapsed => task[t].gate # "cooldown"
               /\ ~elapsed => /\ task[t].gate = "cooldown"
                              /\ 0 < task[t].left
                              /\ task[t].left <= d
  /\ \A key \in DOMAIN lastReady :
       /\ key \in DOMAIN cooldowns
       /\ cooldowns[key] = lastReady[key] + DefNamed(key[2]).cooldown * 1000

C3_Witness ==
  \E t1, t2 \in Tasks :
    /\ TextOnCooldownCommand(t1) /\ TextOnCooldownCommand(t2)
    /\ task[t1].user = task[t2].user /\ task[t1].cmd = task[t2].cmd
    /\ task[t1].gate = "cooldown" /\ task[t1].prevReady = 0 /\ task[t1].left = 1
    /\ task[t2].gate = "pass" /\ task[t2].prevReady = 0 /\ task[t2].at = 2000

(* C4: a check that finds a live cooldown leaves the cooldown store, and so
   the stored expiry, as it was. *)
C4_RejectedCheckKeepsExpiry ==
  [][\A t \in Tasks :
       (task[t].pc = "idle" /\ task'[t].gate = "cooldown") => cooldowns' = cooldowns]_vars

C4_Witness ==
  \E t \in Tasks :
    /\ TextOnCooldownCommand(t)
    /\ task[t].gate = "cooldown"
    /\ task[t].at > task[t].prevReady
    /\ cooldowns[cooldownKey(task[t].user, DefNamed(task[t].cmd))]
         = task[t].prevReady + DefNamed(task[t].cmd).cooldown * 1000

(* C5: on the text path the handler of an adminOnly command is never invoked
   for an actor without administrative capability, member record absent
   included; unless the guild-only gate answers first, the actor gets exactly
   the permission-denied reply. *)
C5_AdminOnlyTextNeverInvoked ==
  \A t \in Tasks :
    (/\ Resolved(t)
     /\ task[t].kind = "text"
     /\ DefNamed(task[t].cmd).adminOnly
     /\ task[t].actor # "admin")
      => /\ ~task[t].invoked
         /\ task[t].gate # "guildOnly" =>
              task[t].replies = <<Reply("adminOnly", "reply")>>

(* the guild-only / admin-only decision of a dispatch *)
GateDecision(t) ==
  IF task[t].gate \in {"guildOnly", "adminOnly"} THEN task[t].gate ELSE "pass"

(* C6: for one command with both handler bodies, one actor capability and one
   guild presence, the text path and the structured path reach the same
   guild-only / admin-only decision. *)
C6_SameGateDecision ==
  \A t1, t2 \in Tasks :
    (/\ Resolved(t1) /\ Resolved(t2)
     /\ task[t1].kind = "text" /\ task[t2].kind = "slash"
     /\ task[t1].cmd = task[t2].cmd
     /\ DefNamed(task[t1].cmd).execute /\ DefNamed(task[t1].cmd).slashExecute
     /\ task[t1].guild = task[t2].guild
     /\ task[t1].actor = task[t2].actor)
      => GateDecision(t1) = GateDecision(t2)

(* C7: once a handler body that was reached has completed, a usage record with
   the command name, the user and the trigger type has been handed to
   persistence. *)
C7_UsageRecorded ==
  \A t \in Tasks :
    (task[t].pc = "done" /\ task[t].invoked)
      => \E r \in usage :
           /\ r.command = task[t].cmd
           /\ r.userId = task[t].user
           /\ r.type = (IF task[t].kind = "text" THEN "prefix" ELSE "slash")

(* C8: the text path evaluates guild-only, then admin-only (an actor whose
   member record shows no administrator permission), then cooldown and
   stops at the first gate that rejects: the rejected dispatch has sent that
   gate's reply and nothing else, has not invoked the handler, and the step
   that rejected changed neither the cooldown store nor the registry nor the
   usage records. *)
C8_TextGateOrder ==
  /\ [](\A t \in Tasks :
         (Resolved(t) /\ task[t].kind = "text")
           => LET c == DefNamed(task[t].cmd)
                  g == task[t].gate
                  guildFails == c.guildOnly /\ ~task[t].guild
                  adminFails == c.adminOnly /\ task[t].actor = "member"
              IN /\ guildFails => g = "guildOnly"
                 /\ g = "guildOnly" => guildFails
                 /\ (~guildFails /\ adminFails) => g = "adminOnly"
                 /\ g = "adminOnly" => (~guildFails /\ adminFails)
                 /\ g = "cooldown" => (~guildFails /\ ~adminFails /\ c.cooldown > 0)
                 /\ g \in GateRejections =>
                      /\ task[t].replies = <<Reply(g, "reply")>>
                      /\ ~task[t].invoked
                      /\ task[t].pc = "reply")
  /\ [][\A t \in Tasks :
          (task[t].pc = "idle" /\ task'[t].kind = "text"
             /\ task'[t].gate \in GateRejections)
            => UNCHANGED <<cooldowns, commands, usage>>]_vars

C8_Witness ==
  \E t1, t2 \in Tasks :
    /\ task[t1].kind = "text" /\ task[t1].gate = "pass" /\ task[t1].cmd = "Ping"
    /\ task[t2].kind = "text" /\ task[t2].gate = "guildOnly" /\ task[t2].cmd = "Ping"
    /\ task[t2].user = task[t1].user
    /\ now < cooldowns[cooldownKey(task[t1].user, pingCommand)]
    /\ task[t2].replies = <<Reply("guildOnly", "reply")>>

(* C9: on both paths a gate rejection and a handler exception have each
   produced exactly one reply of the dispatcher, and a handler that completed
   normally none. *)
C9_ExactlyOneReply ==
  \A t \in Tasks :
    /\ (task[t].pc # "idle" /\ task[t].gate \in GateRejections)
         => (Len(task[t].replies) = 1 /\ task[t].replies[1].msg = task[t].gate)
    /\ task[t].fault
         => (Len(task[t].replies) = 1 /\ task[t].replies[1].msg = "error")
    /\ (task[t].invoked /\ ~task[t].fault) => task[t].replies = <<>>

C9_Witness ==
  \E t1, t2 \in Tasks :
    /\ task[t1].kind = "slash" /\ task[t1].fault /\ Len(task[t1].replies) = 1
    /\ task[t2].kind = "text" /\ task[t2].pc = "done" /\ task[t2].invoked
    /\ task[t2].replies = <<>>

(* C10: on the text path an exception of the handler body never leaves
   handlePrefixCommand: it was logged once and answered with the generic
   failure reply, and the dispatch settles normally. *)
C10_TextFaultContained ==
  /\ [](\A t \in Tasks :
         task[t].kind = "text"
           => /\ task[t].pc # "threw"
              /\ task[t].fault =>
                   /\ task[t].invoked
                   /\ task[t].logged = 1
                   /\ task[t].pc = "reply"
                   /\ task[t].replies = <<Reply("error", "reply")>>)
  /\ [][\A t \in Tasks :
          (task[t].kind = "text" /\ task[t].fault /\ task'[t] # task[t])
            => task'[t] = IdleTask]_vars

C10_Witness ==
  \E t \in Tasks :
    /\ task[t].kind = "text"
    /\ task[t].fault
    /\ task[t].pc = "reply"
    /\ task[t].logged = 1

(* C11: when the slash handler throws, the dispatcher sends exactly one error
   message: a follow-up if the interaction was already replied to or
   deferred, an initial reply otherwise; it never sends an initial reply on
   an acknowledged interaction. *)
C11_FollowUpWhenAcknowledged ==
  \A t \in Tasks :
    (task[t].kind = "slash" /\ task[t].fault)
      => /\ Len(task[t].replies) = 1
         /\ task[t].replies[1].msg = "error"
         /\ task[t].acked => task[t].replies[1].via = "followUp"
         /\ ~task[t].acked => task[t].replies[1].via = "reply"

C11_Witness ==
  \E t1, t2 \in Tasks :
    /\ task[t1].kind = "slash" /\ task[t1].fault /\ task[t1].acked
    /\ task[t1].replies = <<EphemeralReply("error", "followUp")>>
    /\ task[t2].kind = "slash" /\ task[t2].fault /\ ~task[t2].acked
    /\ task[t2].replies = <<EphemeralReply("error", "reply")>>

(* C12: a slash trigger whose name resolves to no registered command has
   produced exactly one ephemeral 'unavailable' reply and has invoked no
   handler, and the step that answered it left the cooldown store as it was. *)
C12_UnknownSlashUnavailable ==
  /\ [](\A t \in Tasks :
         (task[t].kind = "slash" /\ task[t].cmd = None)
           => /\ task[t].gate = "unavailable"
              /\ task[t].replies = <<EphemeralReply("unavailable", "reply")>>
              /\ ~task[t].invoked
              /\ task[t].pc = "reply")
  /\ [][\A t \in Tasks :
          (task[t].pc = "idle" /\ task'[t].kind = "slash" /\ task'[t].cmd = None)
            => cooldowns' = cooldowns]_vars

C12_Witness ==
  \E t \in Tasks :
    /\ task[t].kind = "slash" /\ task[t].cmd = None
    /\ task[t].replies = <<EphemeralReply("unavailable", "reply")>>
    /\ cooldowns # EmptyCollection

(* C13: a text trigger whose first token resolves to no registered command
   is a silent no-op: no reply, no handler invoked, nothing logged as an
   error, and the registry and the cooldown store are left as they were. *)
C13_UnknownTextSilent ==
  /\ [](\A t \in Tasks :
         (task[t].kind = "text" /\ task[t].gate = "unresolved")
           => /\ task[t].replies = <<>>
              /\ ~task[t].invoked
              /\ ~task[t].fault
              /\ task[t].logged = 0
              /\ task[t].pc = "done")
  /\ [][\A t \in Tasks :
          (task[t].pc = "idle" /\ task'[t].gate = "unresolved")
            => UNCHANGED <<commands, cooldowns>>]_vars

C13_Witness ==
  \E t \in Tasks :
    /\ task[t].kind = "text" /\ task[t].gate = "unresolved"
    /\ task[t].pc = "done"
    /\ cooldowns # EmptyCollection

(* C14: on both paths the handler body of a guildOnly command is never
   invoked for a trigger without a guild; the actor gets exactly the
   server-only reply (every guildOnly command here has the handler body of
   the path it is triggered on). *)
C14_GuildOnlyNeverInvokedOutsideGuild ==
  \A t \in Tasks :
    (/\ Resolved(t)
     /\ DefNamed(task[t].cmd).guildOnly
     /\ ~task[t].guild)
      => /\ ~task[t].invoked
         /\ task[t].gate = "guildOnly"
         /\ Len(task[t].replies) = 1
         /\ task[t].replies[1].msg = "guildOnly"
         /\ task[t].replies[1].via = "reply"

C14_Witness ==
  \E t1, t2 \in Tasks :
    /\ task[t1].kind = "text" /\ task[t1].cmd = "kick" /\ ~task[t1].guild
    /\ task[t1].replies = <<Reply("guildOnly", "reply")>>
    /\ task[t2].kind = "slash" /\ task[t2].cmd = "Ping" /\ ~task[t2].guild
    /\ task[t2].replies = <<EphemeralReply("guildOnly", "reply")>>

(* the lower-cased name and aliases of a definition *)
KeysOf(d) ==
  {toLowerCase(d.name)} \cup {toLowerCase(d.aliases[i]) : i \in 1..Len(d.aliases)}

(* the definitions the registry holds under some key *)
Held == {commands[k] : k \in DOMAIN commands}

Registered == {registered[i] : i \in 1..Len(registered)}

(* no two distinct registered definitions share a lower-cased name or alias *)
NoSharedKey ==
  \A d1, d2 \in Registered : d1 # d2 => KeysOf(d1) \cap KeysOf(d2) = {}

(* C15 as stated: for every command the registry holds, its lower-cased name
   and each of its lower-cased aliases resolve to that very definition. *)
C15_EveryKeyResolvesToCommand ==
  \A d \in Held : \A k \in KeysOf(d) : getCommand(commands, k) = d

(* C15 amended: after registrations in which no two distinct definitions
   share a lower-cased name or alias, the lower-cased name and each
   lower-cased alias of every registered command resolve to that very
   definition. *)
C15_KeysResolveWithoutSharedKey ==
  NoSharedKey =>
    \A d \in Registered : \A k \in KeysOf(d) : getCommand(commands, k) = d

C15_Witness ==
  /\ NoSharedKey
  /\ helpCommand \in Registered
  /\ statsCommand \in Registered
  /\ getCommand(commands, "help") = helpCommand
  /\ getCommand(commands, "h") = helpCommand

(* the last registration under the name of registered[i] *)
LastNamed(i) ==
  CHOOSE j \in 1..Len(registered) :
    /\ toLowerCase(registered[j].name) = toLowerCase(registered[i].name)
    /\ \A k \in 1..Len(registered) :
         toLowerCase(registered[k].name) = toLowerCase(registered[i].name) => k <= j

(* C16: once a definition has been registered and then another one with the
   same name, no key resolves to the first any more, and the definitions
   collected for the declaration export hold at most the second under that
   name (exactly it when it carries a declaration). *)
C16_SameNameRetainsOnlySecond ==
  \A i \in 1..Len(registered) :
    LET a == registered[i]
        b == registered[LastNamed(i)]
        unique == uniqueCommands(commands, commandKeys)
        named == {n \in 1..Len(unique) :
                    toLowerCase(unique[n].name) = toLowerCase(b.name)}
    IN a # b =>
         /\ \A k \in DOMAIN commands : commands[k] # a
         /\ \A n \in named : unique[n] = b
         /\ Cardinality(named) = (IF b.slashCommand # NoSlashCommand THEN 1 ELSE 0)

(* C17: a registration that replaces the definition held under an existing
   key hands a warning to the logger. *)
C17_ReplacementWarns ==
  [][(\E k \in DOMAIN commands : commands'[k] # commands[k]) => warned' > warned]_vars

(* place of the first registration of a definition *)
FirstRegistered(d) ==
  CHOOSE i \in 1..Len(registered) :
    registered[i] = d /\ \A j \in 1..(i - 1) : registered[j] # d

(* C18: a category listing holds definitions of that category only, each one
   once however many aliases it has, in the order they were registered. *)
C18_ListedOncePerDefinition ==
  LET res == listed.result
  IN listed.category # None =>
       /\ \A i \in 1..Len(res) : res[i].category = listed.category
       /\ \A i, j \in 1..Len(res) : i # j => res[i] # res[j]
       /\ \A i, j \in 1..Len(res) :
            i < j => FirstRegistered(res[i]) <= FirstRegistered(res[j])

(* the declarations registerSlashCommands would send now *)
Exported == slashCommands(commands, commandKeys)

(* the commands held under their own name that carry a declaration *)
Declaring ==
  {d \in Held : d.slashCommand # NoSlashCommand /\ commands[toLowerCase(d.name)] = d}

(* C19: the export holds the declaration of every command registered under
   its name that carries one exactly once, however many aliases it has, holds
   nothing else, and is what a sync sends. *)
C19_ExportOncePerDeclaringCommand ==
  /\ [](/\ \A d \in Declaring :
             Cardinality({i \in 1..Len(Exported) :
                            Exported[i] = toJSON(d.slashCommand)}) = 1
        /\ \A i \in 1..Len(Exported) :
             \E d \in Declaring : Exported[i] = toJSON(d.slashCommand))
  /\ [][(sync.pc = "idle" /\ sync'.pc # "idle") => sync'.body = Exported]_vars

C19_Witness ==
  /\ sync.pc = "put"
  /\ sync.body = Exported
  /\ Len(Exported) = 2
  /\ getCommand(commands, "h") = infoCommand
  /\ statsCommand \in Held

(* C20: when a sync has completed without error, the platform holds for the
   chosen scope exactly the declarations exported, none included. *)
C20_SyncReplacesPlatformSet ==
  sync.pc = "done" =>
    platform[sync.scope] = {sync.body[i] : i \in 1..Len(sync.body)}

Measuring(c) == call[c].op = "measure"

AnalyticsWrites == {"recordCommandUsage", "recordGuildEvent", "recordMetric"}

(* C21: when the wrapped function throws, measure has tried to write one
   record with success = false and a duration >= 0 (and the row is stored
   when the write succeeded), never returns normally, and raises the very
   exception the function threw, whether the write failed or not. *)
C21_ThrowRecordedAndReRaised ==
  \A c \in Callers :
    (Measuring(c) /\ call[c].error # None)
      => /\ call[c].attempts = 1
         /\ call[c].data.success = FALSE
         /\ call[c].data.duration >= 0
         /\ call[c].pc \in {"create", "threw"}
         /\ call[c].pc = "threw" =>
              /\ call[c].raised = call[c].error
              /\ ~call[c].dbFailed => \E r \in metrics : r.data = call[c].data

C21_Witness ==
  \E c1, c2 \in Callers :
    /\ Measuring(c1) /\ call[c1].pc = "threw" /\ call[c1].dbFailed
    /\ call[c1].raised = "e1"
    /\ Measuring(c2) /\ call[c2].pc = "threw" /\ ~call[c2].dbFailed
    /\ call[c2].raised = "e2"

(* C22: on normal return the duration handed to the caller is the duration
   of the record written for that call. *)
C22_ReturnedDurationIsRecorded ==
  \A c \in Callers :
    (Measuring(c) /\ call[c].pc = "returned")
      => call[c].returned = call[c].data.duration

(* C23: a measure call has tried no write while the wrapped function runs and
   exactly one, with the given metricType and name and its own duration and
   outcome, once the function has finished and before the caller has the
   result or the exception; a step of one call leaves every other call as it
   was. *)
C23_OneEmissionPerCall ==
  /\ [](\A c \in Callers :
         Measuring(c)
           => /\ call[c].pc = "fn" => call[c].attempts = 0
              /\ call[c].pc \in {"create", "returned", "threw"} =>
                   /\ call[c].attempts = 1
                   /\ call[c].data =
                        [metricType |-> call[c].metricType, name |-> call[c].name,
                         duration |-> call[c].finished - call[c].start,
                         success |-> (call[c].error = None)])
  /\ [][\A c \in Callers :
          call'[c] # call[c] => \A d \in Callers \ {c} : call'[d] = call[d]]_vars

C23_Witness ==
  \E c1, c2 \in Callers :
    /\ Measuring(c1) /\ call[c1].pc = "returned" /\ call[c1].name = "ping"
    /\ call[c1].data.duration = 500 /\ call[c1].data.success
    /\ Measuring(c2) /\ call[c2].pc = "threw" /\ call[c2].name = "findUser"
    /\ call[c2].data.duration = 0 /\ ~call[c2].data.success

(* C24: recordCommandUsage, recordGuildEvent and recordMetric never raise,
   and after a persistence failure they have logged it and returned; a
   measured call returns the function's value or raises the function's
   exception whether the write of its record failed or not. *)
C24_TelemetryFailureContained ==
  \A c \in Callers :
    /\ call[c].op \in AnalyticsWrites =>
         /\ call[c].pc # "threw"
         /\ call[c].dbFailed => (call[c].pc = "returned" /\ call[c].logged = 1)
    /\ (Measuring(c) /\ call[c].pc = "returned") =>
         (call[c].error = None /\ call[c].value = call[c].result)
    /\ (Measuring(c) /\ call[c].pc = "threw") =>
         (call[c].error # None /\ call[c].raised = call[c].error)

C24_Witness ==
  \E c1, c2 \in Callers :
    /\ call[c1].op = "recordGuildEvent" /\ call[c1].dbFailed /\ call[c1].pc = "returned"
    /\ Measuring(c2) /\ call[c2].dbFailed /\ call[c2].pc = "returned"
    /\ call[c2].value = "v1"

(* a read that has returned to its caller *)
ReadReturned(c, op) == call[c].op = op /\ call[c].pc = "returned"

(* a read that has returned without a persistence failure *)
ReadAnswered(c, op) == ReadReturned(c, op) /\ ~call[c].dbFailed

(* C25: a persistence failure during an analytics read never propagates: the
   read returns to its caller, with an empty collection from commandStats,
   mostUsedCommands and slowestMetrics, 0 from totalCommandCount and the
   no-data sentinel from averagePerformance *)
C25_ReadFailureGivesFallback ==
  \A c \in Readers :
    (call[c].op \in ReadOps /\ call[c].dbFailed) =>
      /\ call[c].pc = "returned"
      /\ call[c].raised = None
      /\ CASE call[c].op = "getTotalCommandCount" -> call[c].answer = 0
           [] call[c].op = "getAveragePerformance" -> call[c].answer.isNull
           [] OTHER -> call[c].answer = <<>>

(* a count read failed although the table holds records *)
C25_Witness ==
  \E c \in Readers :
    /\ ReadReturned(c, "getTotalCommandCount")
    /\ call[c].dbFailed
    /\ call[c].guildId = None
    /\ call[c].days = 0
    /\ usage # {}

(* C26: commandStats with a guild filter that matches no stored guild returns
   an empty collection, and commandStats over a window holding no usage
   record returns an empty collection *)
C26_UnknownGuildOrEmptyWindowIsEmpty ==
  \A c \in Readers :
    ReadAnswered(c, "getCommandStats") =>
      /\ (call[c].guildId # None /\ (\A g \in guilds : g.data.discordId # call[c].guildId))
           => call[c].answer = <<>>
      /\ (\A r \in usage : r.createdAt < Since(now, call[c].days))
           => call[c].answer = <<>>

(* the durations of a command's records that carry a duration value *)
CarriedDurations(rows, command) ==
  LET s == ById({r \in rows : r.data.command = command /\ r.data.duration # NoDuration})
  IN [i \in 1..Len(s) |-> s[i].data.duration]

(* C27: for each command group returned by commandStats, the average duration
   is the sum of the durations of the records carrying a duration value
   divided by their number, a record of duration 0 counting in the
   denominator and a record without duration not *)
C27_AverageOverCarriedDurations ==
  \A c \in Readers :
    ReadAnswered(c, "getCommandStats") =>
      \A i \in 1..Len(call[c].answer) :
        LET stat == call[c].answer[i]
            carried == CarriedDurations(UsagesOf(call[c]), stat.command)
        IN Len(carried) > 0 =>
             stat.avgDuration.num * Len(carried) = SumOf(carried) * stat.avgDuration.den

(* command names in ascending lexical order *)
NameRank == [a |-> 1, b |-> 2, c |-> 3]

(* C28: mostUsedCommands(limit) returns at most limit entries ordered by
   descending count, commands of equal count by ascending lexical name, so
   the answer is the same for every storage order of the same records *)
C28_TiesInLexicalOrder ==
  \A c \in Readers :
    ReadAnswered(c, "getMostUsedCommands") =>
      LET ans == call[c].answer
      IN /\ Len(ans) <= call[c].limit
         /\ \A i, j \in 1..Len(ans) :
              i < j => \/ ans[i].count > ans[j].count
                       \/ /\ ans[i].count = ans[j].count
                          /\ NameRank[ans[i].command] < NameRank[ans[j].command]
         /\ \A g \in GroupCounts(UsagesOf(call[c])) :
              (\A i \in 1..Len(ans) : ans[i] # g) =>
                /\ Len(ans) = call[c].limit
                /\ \/ ans[Len(ans)].count > g.count
                   \/ /\ ans[Len(ans)].count = g.count
                      /\ NameRank[ans[Len(ans)].command] < NameRank[g.command]

(* the successful records of a category and name inside the window *)
SuccessfulInWindow(cl) ==
  {r \in metrics : /\ r.data.metricType = cl.metricType
                   /\ r.data.name = cl.name
                   /\ r.data.success
                   /\ r.createdAt >= Since(now, cl.days)}

(* C29: averagePerformance averages the durations of the successful records
   matching category, name and window, and returns the no-data sentinel
   exactly when there is no such record *)
C29_AverageOfSuccessfulOrNoData ==
  \A c \in Readers :
    ReadAnswered(c, "getAveragePerformance") =>
      LET found == ById(SuccessfulInWindow(call[c]))
          ans == call[c].answer
      IN /\ ans.isNull <=> Len(found) = 0
         /\ ~ans.isNull =>
              /\ ans.count = Len(found)
              /\ ans.avgDuration.num * Len(found) =
                   SumOf([i \in 1..Len(found) |-> found[i].data.duration])
                     * ans.avgDuration.den

(* no data is answered although a failed record of the category and name lies
   in the window *)
C29_Witness ==
  \E c \in Readers :
    /\ ReadAnswered(c, "getAveragePerformance")
    /\ call[c].answer.isNull
    /\ \E r \in metrics : /\ r.data.metricType = call[c].metricType
                          /\ r.data.name = call[c].name
                          /\ ~r.data.success
                          /\ r.createdAt >= Since(now, call[c].days)

(* C30: every rejection that leaves handlePrefixCommand or handleSlashCommand,
   a rejected gate reply or error reply included, is caught and logged by the
   listener that started the dispatch, and none is left unhandled *)
C30_EscapedRejectionCaughtByListener ==
  \A t \in Tasks :
    /\ task[t].pc # "unhandled"
    /\ (task[t].escaped /\ task[t].pc # "threw")
         => (task[t].caught /\ task[t].pc = "done")

(* the error reply after a handler exception was rejected by the transport and
   the listener caught it *)
C30_Witness ==
  \E t \in Tasks :
    task[t].fault /\ task[t].escaped /\ task[t].caught

(* C31: the slash path neither reads nor writes the cooldown store: a step of
   a slash dispatch leaves every cooldown entry as it was, and a slash
   invocation is never rejected for a cooldown, whatever the text path armed
   for the same user and command *)
C31_SlashPathIgnoresCooldowns ==
  /\ [](\A t \in Tasks : task[t].kind = "slash" => task[t].gate # "cooldown")
  /\ [][\A t \in Tasks :
          (task'[t] # task[t] /\ (task[t].kind = "slash" \/ task'[t].kind = "slash"))
            => /\ cooldowns' = cooldowns
               /\ (task[t].pc = "idle" /\ task'[t].cmd # None)
                    => task'[t].gate =
                         SlashGate(DefNamed(task'[t].cmd), task'[t].guild, task'[t].actor)]_vars

(* both dispatches in flight are slash invocations of Ping by the same user,
   inside the handler, while the cooldown the text path armed for that user
   and Ping is live: the later of the two began under the live cooldown *)
C31_Witness ==
  \E u \in {a.id : a \in Actors} :
    /\ <<u, "Ping">> \in DOMAIN cooldowns
    /\ now < cooldowns[<<u, "Ping">>]
    /\ \A t \in Tasks :
         /\ task[t].kind = "slash"
         /\ task[t].user = u
         /\ task[t].cmd = "Ping"
         /\ task[t].pc = "handler"

(* the definition a dispatch of the cooldown specification resolved *)
CooldownDef(n) == CHOOSE d \in {pingCommand, remindCommand} : d.name = n

(* a text dispatch begins at this step and resolves a command *)
TextBegins(t) ==
  task[t].pc = "idle" /\ task'[t].kind = "text" /\ task'[t].cmd # None

(* C32: cooldowns are keyed by user and canonical command name: a dispatch by
   user u of command c, by name or by alias, is rejected for a cooldown
   exactly on a live entry (u, c), whatever other users or other commands
   armed, and it arms the entry (u, c) and no other *)
C32_KeyedByUserAndCanonicalName ==
  /\ [](\A k \in DOMAIN cooldowns :
         /\ k[1] \in {a.id : a \in CooldownActors}
         /\ k[2] \in {pingCommand.name, remindCommand.name})
  /\ [][\A t \in Tasks :
          TextBegins(t) =>
            LET tk == task'[t]
                k == <<tk.user, tk.cmd>>
                live == k \in DOMAIN cooldowns /\ now < cooldowns[k]
            IN /\ tk.gate = "cooldown" => live
               /\ (live /\ tk.gate # "guildOnly") => tk.gate = "cooldown"
               /\ \A q \in DOMAIN cooldowns \ {k} :
                    q \in DOMAIN cooldowns' /\ cooldowns'[q] = cooldowns[q]
               /\ DOMAIN cooldowns' \subseteq DOMAIN cooldowns \cup {k}
               /\ tk.gate \in {"pass", "unsupported"} =>
                    /\ k \in DOMAIN cooldowns'
                    /\ cooldowns'[k] =
                         now + CooldownDef(tk.cmd).cooldown * MsPerSecond]_vars

(* u2 reaches the Ping handler through the alias while u1's Ping cooldown and
   u2's own remind cooldown are live *)
C32_Witness ==
  \E t \in Tasks :
    /\ task[t].kind = "text" /\ task[t].user = "u2" /\ task[t].cmd = "Ping"
    /\ task[t].commandName = "p"
    /\ task[t].pc = "handler"
    /\ task[t].at = now
    /\ <<"u1", "Ping">> \in DOMAIN cooldowns /\ now < cooldowns[<<"u1", "Ping">>]
    /\ <<"u2", "remind">> \in DOMAIN cooldowns /\ now < cooldowns[<<"u2", "remind">>]

(* C35: on the text path the cooldown is armed once the guild-only and
   admin-only gates have passed and before the handler body runs, and nothing
   after that takes it back: a dispatch whose handler throws, or whose command
   has no text handler, leaves the cooldown of (user, command) armed for the
   full duration *)
C35_ArmedBeforeHandlerAndKept ==
  /\ [](\A t \in Tasks :
         (task[t].kind = "text" /\ task[t].gate \in {"pass", "unsupported"}) =>
           LET k == <<task[t].user, task[t].cmd>>
           IN /\ k \in DOMAIN cooldowns
              /\ cooldowns[k] >=
                   task[t].at + CooldownDef(task[t].cmd).cooldown * MsPerSecond)
  /\ [][\A t \in Tasks :
          /\ (TextBegins(t) /\ task'[t].gate \in {"guildOnly", "adminOnly"})
               => cooldowns' = cooldowns
          /\ (task'[t] # task[t] /\ task[t].pc \in {"handler", "reply"})
               => cooldowns' = cooldowns]_vars

(* the Ping handler threw, the failure reply is on its way, and the cooldown
   armed at the start of the dispatch stands in full *)
C35_Witness ==
  \E t \in Tasks :
    /\ task[t].kind = "text" /\ task[t].cmd = "Ping" /\ task[t].fault
    /\ task[t].pc = "reply"
    /\ now > task[t].at
    /\ cooldowns[<<task[t].user, "Ping">>] = task[t].at + 2 * MsPerSecond

(* C33: a text dispatch that resolves a command without text handler and
   passes the gates replies exactly once, with the not-supported message, and
   invokes no handler *)
C33_NoTextHandlerRepliesUnsupported ==
  \A t \in Tasks :
    (task[t].kind = "text" /\ task[t].cmd # None /\ ~DefNamed(task[t].cmd).execute) =>
      /\ ~task[t].invoked
      /\ task[t].pc = "reply"
      /\ Len(task[t].replies) = 1
      /\ task[t].gate \notin {"guildOnly", "adminOnly", "cooldown"} =>
           /\ task[t].gate = "unsupported"
           /\ task[t].replies = <<Reply("unsupported", "reply")>>
           /\ ~task[t].fault

(* slashonly asked for by text: the one reply is the not-supported message *)
C33_Witness ==
  \E t \in Tasks :
    /\ task[t].kind = "text" /\ task[t].cmd = "slashonly"
    /\ task[t].commandName = "slashonly"
    /\ task[t].replies = <<Reply("unsupported", "reply")>>
    /\ ~task[t].invoked

(* where an entry stands in the start-up log, 0 if it does not *)
LogIndex(entry) ==
  IF Logged(boot, entry) THEN CHOOSE i \in 1..Len(boot.log) : boot.log[i] = entry
  ELSE 0

(* C34: the registry is mutated only during start-up: the registrations are
   complete before any listener is attached and before the client logs in,
   and no text or slash dispatch adds, removes or replaces a registry entry *)
C34_RegistryMutatedOnlyAtStartup ==
  /\ [](/\ Logged(boot, "registerAllEvents") =>
             /\ Logged(boot, "registerCommands")
             /\ LogIndex("registerCommands") < LogIndex("registerAllEvents")
             /\ commands = registerCommands(EmptyCollection, commandList)
        /\ Logged(boot, "login") =>
             /\ LogIndex("registerCommands") < LogIndex("login")
             /\ LogIndex("registerAllEvents") < LogIndex("login")
        /\ (\E t \in Tasks : task[t].pc # "idle") =>
             (Logged(boot, "registerAllEvents") /\ Logged(boot, "login")))
  /\ [][/\ commands' # commands => boot.pc = "none"
        /\ (Logged(boot, "registerAllEvents") \/ task' # task) =>
             (commands' = commands /\ commandKeys' = commandKeys)]_vars

(* a text dispatch of Ping is inside its handler after a completed start-up *)
C34_Witness ==
  /\ boot.pc = "ready"
  /\ \E t \in Tasks : task[t].kind = "text" /\ task[t].cmd = "Ping"
                         /\ task[t].pc = "handler"
  /\ commands = registerCommands(EmptyCollection, commandList)

(* C36: with persistence available, every recordGuildEvent call for a guild
   not stored yet appends its own guild-event row, however the calls for that
   guild interleave *)
C36_NoEventLostToRacingCreation ==
  \A c \in Callers :
    (/\ call[c].op = "recordGuildEvent"
     /\ call[c].pc = "returned"
     /\ call[c].error # "Unavailable") =>
      /\ ~call[c].dbFailed
      /\ \E r \in events : r.data.guildId = call[c].guildDbId

(* C37: registerCommand given a definition without name or without
   description leaves the registry as it was, neither the name nor an alias
   inserted, and logs a warning; the registry never holds such a definition *)
C37_InvalidDefinitionSkipped ==
  /\ [](\A k \in DOMAIN commands :
         /\ Accepted(commands[k])
         /\ k \notin {"", "draft", "x"})
  /\ [][\A d \in RegistryDefinitions :
          (~Accepted(d) /\ RegisterCommand(d)) =>
            /\ commands' = commands
            /\ commandKeys' = commandKeys
            /\ registered' = registered
            /\ warned' = warned + 1]_vars

(* a definition was skipped with a warning while the registry holds others *)
C37_Witness ==
  /\ warned = 1
  /\ Len(registered) = 2
  /\ DOMAIN commands # {}

(* C38: in createPaginatedEmbed, after any sequence of button presses,
   1 <= currentPage <= totalPages; in every rendered state first and previous
   are disabled exactly when currentPage = 1 and next and last exactly when
   currentPage = totalPages; no collector is created when totalPages <= 1.
   The states are those from the initial reply up to the end of the collector;
   the row sent by the end handler, every button disabled, is left out *)
C38_PageInRangeAndButtonsMatch ==
  pager.pc \in {"reply", "returned", "collecting"} =>
    /\ 1 <= pager.currentPage
    /\ pager.currentPage <= pager.totalPages
    /\ pager.rendered.buttons =>
         /\ pager.rendered.first <=> pager.currentPage = 1
         /\ pager.rendered.prev <=> pager.currentPage = 1
         /\ pager.rendered.next <=> pager.currentPage = pager.totalPages
         /\ pager.rendered.last <=> pager.currentPage = pager.totalPages
    /\ pager.totalPages <= 1 => ~pager.collector

(* C39: after any sequence of SystemMonitor.recordCpuUsage calls the CPU usage
   history holds at most MAX_HISTORY (60) measurements, and they are the most
   recent ones in recording order, the oldest dropped first *)
C39_HistoryIsLastSixtyInOrder ==
  LET held == Len(cpuUsageHistory)
  IN /\ held <= MAX_HISTORY
     /\ held = IF sampler.taken < MAX_HISTORY THEN sampler.taken ELSE MAX_HISTORY
     /\ \A i \in 1..held :
          cpuUsageHistory[i] = getCpuUsage(sampler.profile, sampler.taken - held + i)

C39_Witness ==
  /\ sampler.profile = "ramp"
  /\ sampler.taken = MAX_HISTORY + 3
  /\ Len(cpuUsageHistory) = MAX_HISTORY
  /\ cpuUsageHistory[1] = 4
  /\ cpuUsageHistory[MAX_HISTORY] = MAX_HISTORY + 3

====
